---------------------------- MODULE Spec2Model ----------------------------
(***************************************************************************)
(* A model of the circuit front end of ark-plonk: public-input vectors,    *)
(* selector blinding, composer padding and the preprocessing that the      *)
(* prover and the verifier share.                                          *)
(*                                                                         *)
(* Field elements are the integers modulo the prime P; polynomials are     *)
(* coefficient sequences, lowest degree first, as in DensePolynomial.      *)
(***************************************************************************)
EXTENDS Integers, Sequences, FiniteSets, TLC

VARIABLES
    fnIn,      \* SpecFn: the arguments of the pure function under study
    fnOut,     \* SpecFn: its result, or NotRun
    cs,                        \* the composer of a Prover or Verifier
    preprocessed_transcript,   \* the transcript kept beside it
    verifier_key,              \* Verifier::verifier_key, NoKey for None
    prover_key,                \* the ProverKey preprocess_prover returned last
    last,                      \* the last call on the composer and its result
    pipe,                      \* a circuit on its way through compile, gen_proof, verify_proof
    session                    \* the verify calls made on a shared Verifier

fnVars == <<fnIn, fnOut>>
csVars == <<cs, preprocessed_transcript, verifier_key, prover_key, last>>
vars == <<fnIn, fnOut, cs, preprocessed_transcript, verifier_key, prover_key, last, pipe,
          session>>

(***************************************************************************)
(* Bounds of the model.                                                    *)
(***************************************************************************)
\* longest sequence of public-input values and of positions handed to build_pi
MaxPi == 2
\* largest trim_size handed to build_pi
MaxTrim == 3
\* largest size n handed to add_blinder on its own
MaxBlindN == 3
\* most gates a gadget adds
MaxGates == 3
\* largest diff handed to pad directly
MaxDiff == 2

(***************************************************************************)
(* The scalar field F (PrimeField): the integers modulo P.                 *)
(***************************************************************************)
P == 97
\* F::multiplicative_generator()
GENERATOR == 5
\* FftParameters::TWO_ADICITY: P - 1 = 2^5 * 3
TWO_ADICITY == 5

Fe == 0..(P - 1)
Fadd(a, b) == (a + b) % P
Fneg(a) == (P - a) % P
Fsub(a, b) == (a + P - b) % P
Fmul(a, b) == (a * b) % P

RECURSIVE Fpow(_, _)
Fpow(a, e) ==
    IF e = 0 THEN 1
    ELSE LET h == Fpow(a, e \div 2)
             s == Fmul(h, h)
         IN IF e % 2 = 1 THEN Fmul(s, a) ELSE s

Finv(a) == Fpow(a, P - 2)

RECURSIVE Pow2(_)
Pow2(k) == IF k = 0 THEN 1 ELSE 2 * Pow2(k - 1)

\* usize::next_power_of_two: the least power of two >= m (1 for m = 0)
RECURSIVE NextPow2From(_, _)
NextPow2From(m, c) == IF c >= m THEN c ELSE NextPow2From(m, 2 * c)
next_power_of_two(m) == NextPow2From(m, 1)


\* FftParameters::TWO_ADIC_ROOT_OF_UNITY: a generator of the 2^TWO_ADICITY-th roots
TWO_ADIC_ROOT_OF_UNITY == Fpow(GENERATOR, (P - 1) \div Pow2(TWO_ADICITY))

(***************************************************************************)
(* Sequences.                                                              *)
(***************************************************************************)
\* a Vec: the sequence s with its elements computed
Vec(s) == s \o <<>>

\* the element of a set of one element
Only(S) == CHOOSE r \in S : TRUE

\* a table: the function f with its values computed
Table(f) == f @@ <<>>

Zeros(k) == Vec([i \in 1..k |-> 0])

RECURSIVE Flatten(_)
Flatten(ss) == IF ss = <<>> THEN <<>> ELSE Head(ss) \o Flatten(Tail(ss))

Min(a, b) == IF a <= b THEN a ELSE b
Max(a, b) == IF a >= b THEN a ELSE b

\* all sequences over S of length at most k
SeqUpTo(S, k) == UNION {[1..m -> S] : m \in 0..k}

(***************************************************************************)
(* DensePolynomial: its arithmetic.                                        *)
(***************************************************************************)
\* DensePolynomial::truncate_leading_zeros: drops the zero coefficients of highest degree
RECURSIVE PolyTrunc(_)
PolyTrunc(c) ==
    IF c = <<>> THEN <<>>
    ELSE IF c[Len(c)] = 0 THEN PolyTrunc(SubSeq(c, 1, Len(c) - 1))
    ELSE c

Coef(c, j) == IF j >= 1 /\ j <= Len(c) THEN c[j] ELSE 0

\* &a + &b on DensePolynomial
PolyAdd(a, b) ==
    PolyTrunc(Vec([j \in 1..Max(Len(a), Len(b)) |-> Fadd(Coef(a, j), Coef(b, j))]))

RECURSIVE ConvSum(_, _, _, _)
ConvSum(a, b, k, i) ==
    IF i > Len(a) THEN 0
    ELSE Fadd(Fmul(a[i], Coef(b, k + 1 - i)), ConvSum(a, b, k, i + 1))

\* &a * &b on DensePolynomial
PolyMul(a, b) ==
    IF PolyTrunc(a) = <<>> \/ PolyTrunc(b) = <<>> THEN <<>>
    ELSE PolyTrunc(Vec([k \in 1..(Len(a) + Len(b) - 1) |-> ConvSum(a, b, k, 1)]))

\* Polynomial::evaluate, by Horner's rule
RECURSIVE PolyEval(_, _)
PolyEval(c, x) ==
    IF c = <<>> THEN 0
    ELSE Fadd(Head(c), Fmul(x, PolyEval(Tail(c), x)))

(***************************************************************************)
(* circuit.rs: public inputs.                                              *)
(***************************************************************************)
\* a raw public input: a field element or an affine point of the embedded curve
FeInput(v) == [kind |-> "fe", x |-> v, y |-> 0]
GeInput(px, py) == [kind |-> "ge", x |-> px, y |-> py]

\* FeIntoPubInput::into_pi / GeIntoPubInput::into_pi: the values of a PublicInputValue
into_pi(inp) == IF inp.kind = "fe" THEN <<inp.x>> ELSE <<inp.x, inp.y>>

PubInputValues(inputs) == [i \in 1..Len(inputs) |-> into_pi(inputs[i])]

\* build_pi returns the vector, or panics on an index out of bounds
Returned(v) == [tag |-> "returned", val |-> v]
Panic == [tag |-> "panic"]

\* the for_each of build_pi: pi[pos] = -value for the zipped pairs from the k-th on, in order
RECURSIVE BuildPiLoop(_, _, _, _)
BuildPiLoop(pi, flat, pos, k) ==
    IF k > Min(Len(flat), Len(pos)) THEN Returned(pi)
    ELSE IF pos[k] >= Len(pi) THEN Panic
    ELSE BuildPiLoop([pi EXCEPT ![pos[k] + 1] = Fneg(flat[k])], flat, pos, k + 1)


\* a build_pi that places the values without negating them
BuildPiNoNeg(pub_input_values, pub_input_pos, trim_size) ==
    LET flat == Flatten(pub_input_values)
        m == Min(Len(flat), Len(pub_input_pos))
    IN  IF \E k \in 1..m : pub_input_pos[k] >= trim_size THEN Panic
        ELSE Returned([j \in 1..trim_size |->
                IF \E k \in 1..m : pub_input_pos[k] + 1 = j
                THEN flat[CHOOSE k \in 1..m : pub_input_pos[k] + 1 = j]
                ELSE 0])

\* build_pi: the dense public-input vector (index 0 of the code is index 1 here)
build_pi(pub_input_values, pub_input_pos, trim_size) ==
    BuildPiLoop(Zeros(trim_size), Flatten(pub_input_values), pub_input_pos, 1)

(***************************************************************************)
(* preprocess.rs: blinding.                                                *)
(***************************************************************************)
\* SparsePolynomial [(0, -1), (n, 1)] made dense: X^n - 1
VanishingPoly(n) ==
    Vec([j \in 1..(n + 1) |-> IF j = 1 THEN Fneg(1) ELSE IF j = n + 1 THEN 1 ELSE 0])

\* an add_blinder whose Z_h is X^n + 1
AddBlinderPlusOne(polynomial, n, hiding_coef) ==
    LET z_h == Vec([j \in 1..(n + 1) |-> IF j = 1 \/ j = n + 1 THEN 1 ELSE 0])
    IN  PolyAdd(polynomial, PolyMul(PolyTrunc(hiding_coef), z_h))

\* add_blinder: polynomial + (hiding_coef[0] + hiding_coef[1] X) * Z_h
add_blinder(polynomial, n, hiding_coef) ==
    LET z_h == VanishingPoly(n)
        rand_poly == PolyTrunc(hiding_coef)
        blinder_poly == PolyMul(rand_poly, z_h)
    IN  PolyAdd(polynomial, blinder_poly)

(***************************************************************************)
(* StandardComposer: the columns of the constraint system.                 *)
(***************************************************************************)
\* the selector columns, in the order pad extends them
SelectorNames ==
    <<"q_m", "q_l", "q_r", "q_o", "q_c", "q_4", "q_arith", "q_range", "q_logic",
      "q_fixed_group_add", "q_variable_group_add">>
\* the wire columns, in the order pad extends them
WireNames == <<"w_l", "w_r", "w_o", "w_4">>

Range(f) == {f[i] : i \in DOMAIN f}
Selectors == Range(SelectorNames)
Wires == Range(WireNames)
Columns == Selectors \cup Wires

\* Variable handles; the composer reserves the first one for the value zero
ZeroVar == 0
VarA == 1
VarB == 2
VarO == 3
VarY == 4
Variables == {ZeroVar, VarA, VarB, VarO, VarY}

\* StandardComposer::zero_var
zero_var(composer) == ZeroVar

\* StandardComposer::new: no gates, no public inputs, no wire recorded in the permutation
NewComposer ==
    [col |-> [c \in Columns |-> <<>>],
     n |-> 0,
     public_inputs |-> {},
     witnesses |-> [v \in Variables |-> 0],
     perm |-> [v \in Variables |-> <<>>]]

\* StandardComposer::circuit_size
circuit_size(composer) == composer.n

\* the public input of a gate: None, or Some(value)
NoPi == [some |-> FALSE]
SomePi(v) == [some |-> TRUE, val |-> v]

\* one row of the constraint system: its selector values, its wires, its
\* public input
Row(sel, w, pi) ==
    [sel |-> [c \in Selectors |-> IF c \in DOMAIN sel THEN sel[c] ELSE 0],
     w |-> w, pi |-> pi]

MinusOne == P - 1

\* the gates a gadget is made of: arithmetic gates (with and without a public
\* input), and one gate of each custom widget
GateList ==
    << Row([q_l |-> 1, q_r |-> 1, q_o |-> MinusOne, q_arith |-> 1],
           <<VarA, VarB, ZeroVar, ZeroVar>>, SomePi(3)),
       Row([q_range |-> 1], <<VarA, ZeroVar, ZeroVar, ZeroVar>>, NoPi),
       Row([q_m |-> 1, q_o |-> MinusOne, q_c |-> 2, q_4 |-> 1, q_arith |-> 1],
           <<VarA, VarB, VarO, VarB>>, SomePi(MinusOne)),
       Row([q_logic |-> 1, q_c |-> MinusOne], <<VarA, VarB, VarO, ZeroVar>>, NoPi),
       Row([q_fixed_group_add |-> 1, q_l |-> 3, q_r |-> 5],
           <<VarO, VarB, VarA, ZeroVar>>, NoPi),
       Row([q_variable_group_add |-> 1], <<VarB, VarA, VarO, VarO>>, NoPi) >>

\* StandardComposer::add_input: the value of a witness variable
add_input(composer, v, value) ==
    [composer EXCEPT !.witnesses[v] = value]

\* a gate-adding primitive: one more row in every column, the wires recorded in
\* the permutation, the public input stored under the row
AddGate(composer, g) ==
    [col |-> [c \in Columns |->
                IF c \in Selectors
                THEN Append(composer.col[c], g.sel[c])
                ELSE Append(composer.col[c],
                            g.w[CHOOSE k \in 1..4 : WireNames[k] = c])],
     n |-> composer.n + 1,
     public_inputs |-> IF g.pi.some
                       THEN composer.public_inputs \cup {<<composer.n, g.pi.val>>}
                       ELSE composer.public_inputs,
     witnesses |-> composer.witnesses,
     perm |-> [v \in Variables |->
                composer.perm[v] \o
                    SelectSeq(<<<<1, composer.n, g.w[1]>>, <<2, composer.n, g.w[2]>>,
                                <<3, composer.n, g.w[3]>>, <<4, composer.n, g.w[4]>>>>,
                              LAMBDA wd : wd[3] = v)]]

\* running a gadget: its gates are added in order
RECURSIVE RunGates(_, _)
RunGates(composer, gates) ==
    IF gates = <<>> THEN composer
    ELSE RunGates(AddGate(composer, Head(gates)), Tail(gates))

\* StandardComposer::pi_positions: the rows that carry a public input, ascending
RECURSIVE SortedSeq(_)
SortedSeq(S) ==
    IF S = {} THEN <<>>
    ELSE LET m == CHOOSE x \in S : \A y \in S : x <= y
         IN <<m>> \o SortedSeq(S \ {m})
pi_positions(composer) == SortedSeq({e[1] : e \in composer.public_inputs})

\* a pad that leaves out q_4 and w_4
PadNoFourth(composer, diff) ==
    [composer EXCEPT
        !.col = [c \in Columns |->
                    IF c \in {"q_4", "w_4"} THEN composer.col[c]
                    ELSE composer.col[c] \o Zeros(diff)],
        !.n = composer.n + diff]

\* a pad that appends a row when diff is zero
PadAtLeastOne(composer, diff) ==
    [composer EXCEPT
        !.col = [c \in Columns |->
                    IF c \in Selectors THEN composer.col[c] \o Zeros(Max(diff, 1))
                    ELSE composer.col[c] \o [i \in 1..Max(diff, 1) |-> ZeroVar]],
        !.n = composer.n + Max(diff, 1)]

\* a pad that clears the selector rows it finds
PadOverwrite(composer, diff) ==
    [composer EXCEPT
        !.col = [c \in Columns |->
                    IF c \in Selectors THEN Zeros(Len(composer.col[c]) + diff)
                    ELSE composer.col[c] \o [i \in 1..diff |-> ZeroVar]],
        !.n = composer.n + diff]

\* StandardComposer::pad: diff more rows, zero in every selector column and the
\* zero variable in every wire column
pad(composer, diff) ==
    LET zero_scalar == 0
        zeroes_scalar == [i \in 1..diff |-> zero_scalar]
        zeroes_var == [i \in 1..diff |-> zero_var(composer)]
    IN  [composer EXCEPT
            !.col = [c \in Columns |->
                        IF c \in Selectors THEN composer.col[c] \o zeroes_scalar
                        ELSE composer.col[c] \o zeroes_var],
            !.n = composer.n + diff]

\* the columns check_poly_same_len compares with q_m
CheckedColumns ==
    {"q_o", "q_l", "q_r", "q_c", "q_4", "q_arith", "q_range", "q_logic",
     "q_fixed_group_add", "q_variable_group_add", "w_l", "w_r", "w_o", "w_4"}

\* a check_poly_same_len that leaves out the wire columns
CheckSelectorsOnly(composer) ==
    \A c \in CheckedColumns \cap Selectors :
        Len(composer.col[c]) = Len(composer.col["q_m"])

\* StandardComposer::check_poly_same_len: TRUE for Ok(()), FALSE for
\* Err(MismatchedPolyLen)
check_poly_same_len(composer) ==
    LET k == Len(composer.col["q_m"])
    IN  \A c \in CheckedColumns : Len(composer.col[c]) = k

(***************************************************************************)
(* Evaluation domains, FFTs, commitments, the transcript.                  *)
(***************************************************************************)
RECURSIVE Log2(_)
Log2(m) == IF m <= 1 THEN 0 ELSE 1 + Log2(m \div 2)

NoDomain == [size |-> 0, group_gen |-> 0]

\* GeneralEvaluationDomain::new: the subgroup of order next_power_of_two(num_coeffs),
\* or None (NoDomain) when the field has no subgroup of that order
NewDomain(num_coeffs) ==
    LET size == next_power_of_two(num_coeffs)
        log_size_of_group == Log2(size)
    IN  IF log_size_of_group > TWO_ADICITY THEN NoDomain
        ELSE [size |-> size,
              group_gen |-> Fpow(TWO_ADIC_ROOT_OF_UNITY,
                                 Pow2(TWO_ADICITY - log_size_of_group))]

\* EvaluationDomain::element
DomainElement(domain, i) == Fpow(domain.group_gen, i)

\* Vec::resize(size, zero)
Resize(v, size) == Vec([i \in 1..size |-> IF i <= Len(v) THEN v[i] ELSE 0])

RECURSIVE SumTerms(_, _)
SumTerms(terms, k) ==
    IF k = 0 THEN 0 ELSE Fadd(terms[k], SumTerms(terms, k - 1))

\* EvaluationDomain::ifft: the coefficients of the polynomial of degree < size
\* whose value at the i-th element of the domain is evals[i]
ifft(domain, evals) ==
    LET v == Resize(evals, domain.size)
        size_inv == Finv(domain.size % P)
        gen_inv == Finv(domain.group_gen)
    IN  Vec([j \in 1..domain.size |->
            LET terms == Vec([i \in 1..domain.size |->
                                 Fmul(v[i], Fpow(gen_inv, (i - 1) * (j - 1)))])
            IN  Fmul(size_inv, SumTerms(terms, domain.size))])

\* EvaluationDomain::coset_fft: the values at GENERATOR * w^i, i < size
coset_fft(domain, coeffs) ==
    Vec([i \in 1..domain.size |->
        PolyEval(coeffs, Fmul(GENERATOR, DomainElement(domain, i - 1)))])

\* Polynomial::degree (0 for the zero polynomial)
Degree(poly) == IF PolyTrunc(poly) = <<>> THEN 0 ELSE Len(PolyTrunc(poly)) - 1

\* a commitment binds to the polynomial, whatever the length of its coefficient
\* vector; NoCommit stands for Err(TooManyCoefficients)
NoCommit == [committed |-> FALSE, to |-> <<>>]

\* KZG10::commit under a key of ck powers
Commit(ck, poly) ==
    IF Degree(poly) + 1 > ck THEN NoCommit
    ELSE [committed |-> TRUE, to |-> PolyTrunc(poly)]

\* TranscriptWrapper::new
NewTranscript(label) == <<[label |-> label]>>

\* VerifierKey::seed_transcript: the key's size and commitments are absorbed
seed_transcript(vk, transcript) == Append(transcript, vk)

(***************************************************************************)
(* The permutation argument's sigma polynomials.                           *)
(***************************************************************************)
\* the coset representative of each wire column
CosetK == <<1, 7, 13, 17>>

\* the (column, row) that follows (k, i) among the occurrences of its variable;
\* itself when the permutation records no wire there
NextOccurrence(perm, k, i) ==
    IF \E v \in Variables : \E j \in 1..Len(perm[v]) : perm[v][j] = <<k, i, v>>
    THEN LET v == CHOOSE v \in Variables :
                    \E j \in 1..Len(perm[v]) : perm[v][j] = <<k, i, v>>
             j == CHOOSE j \in 1..Len(perm[v]) : perm[v][j] = <<k, i, v>>
         IN  perm[v][(j % Len(perm[v])) + 1]
    ELSE <<k, i, ZeroVar>>

\* Permutation::compute_sigma_polynomials: one polynomial per wire column
compute_sigma_polynomials(perm, n, domain) ==
    Vec([k \in 1..4 |->
        ifft(domain,
             Vec([i \in 1..n |->
                LET nx == NextOccurrence(perm, k, i - 1)
                IN  Fmul(CosetK[nx[1]], DomainElement(domain, nx[2]))]))])

(***************************************************************************)
(* circuit.rs: BlindingRandomness, eleven pairs of field elements.         *)
(***************************************************************************)
NumSelectors == Len(SelectorNames)

\* a default with one entry that is not zero
BlindingNotZero == [k \in 1..NumSelectors |-> IF k = 1 THEN <<0, 1>> ELSE <<0, 0>>]

\* BlindingRandomness::default: every entry is F::default(), the zero element
BlindingDefault == [k \in 1..NumSelectors |-> <<0, 0>>]

\* BlindingRandomness::new(): the array-repeat expression [[e; 2]; 11]
\* evaluates e = F::rand(&mut OsRng) once and copies the value, so one draw
\* of the random source fills all 22 entries
BlindingNew(draw) == [k \in 1..NumSelectors |-> <<draw, draw>>]

\* a value whose eleven pairs all differ, as a caller may build it (r is a
\* public field)
BlindingDistinct == [k \in 1..NumSelectors |-> <<k, 2 * k + 1>>]

(***************************************************************************)
(* preprocess.rs: preprocessing.                                           *)
(***************************************************************************)
SigmaNames == <<"left_sigma", "right_sigma", "out_sigma", "fourth_sigma">>
PolyNames == Selectors \cup Range(SigmaNames)

NoKey == [some |-> FALSE]

\* widget::VerifierKey::from_polynomial_commitments
VerifierKeyOf(n, commitments) == [some |-> TRUE, n |-> n, com |-> commitments]

\* what a preprocessing call leaves: its result, the composer and the transcript
\* it was handed (both are &mut), and what it returns on Ok
Outcome(tag, composer, transcript, vk, selectors, domain) ==
    [tag |-> tag, cs |-> composer, transcript |-> transcript,
     verifier_key |-> vk, selectors |-> selectors, domain |-> domain]

NoPolys == [some |-> FALSE]

\* a preprocess_shared that hands q_l the blinding pair of q_r and q_r that of
\* q_l (the interpolations are computed in the order q_m, q_r, q_l)
PreprocessSharedSwapped(composer, commit_key, transcript, br) ==
    LET domain == NewDomain(circuit_size(composer))
        padded == pad(composer, domain.size - composer.n)
        sigmas == compute_sigma_polynomials(padded.perm, padded.n, domain)
        polys == Table([c \in PolyNames |->
                    IF c \in Selectors
                    THEN LET k == CHOOSE k \in 1..NumSelectors : SelectorNames[k] = c
                             kk == IF k = 2 THEN 3 ELSE IF k = 3 THEN 2 ELSE k
                         IN  add_blinder(ifft(domain, padded.col[c]), padded.n, br[kk])
                    ELSE sigmas[CHOOSE k \in 1..4 : SigmaNames[k] = c]])
        commits == Table([c \in PolyNames |-> Commit(commit_key, polys[c])])
        vk == VerifierKeyOf(circuit_size(padded), commits)
    IN  IF domain = NoDomain
        THEN Outcome("panic", composer, transcript, NoKey, NoPolys, domain)
        ELSE IF ~check_poly_same_len(composer)
        THEN Outcome("MismatchedPolyLen", composer, transcript, NoKey, NoPolys, domain)
        ELSE IF \E c \in PolyNames : ~commits[c].committed
        THEN Outcome("TooManyCoefficients", padded, transcript, NoKey, NoPolys, domain)
        ELSE Outcome("Ok", padded, seed_transcript(vk, transcript),
                     vk, [some |-> TRUE, poly |-> polys], domain)

\* StandardComposer::preprocess_shared
preprocess_shared(composer, commit_key, transcript, br) ==
    LET domain == NewDomain(circuit_size(composer))
        \* 1. Pad circuit to a power of two
        padded == pad(composer, domain.size - composer.n)
        sigmas == compute_sigma_polynomials(padded.perm, padded.n, domain)
        polys == Table([c \in PolyNames |->
                    IF c \in Selectors
                    THEN LET k == CHOOSE k \in 1..NumSelectors : SelectorNames[k] = c
                         IN  add_blinder(ifft(domain, padded.col[c]), padded.n, br[k])
                    ELSE sigmas[CHOOSE k \in 1..4 : SigmaNames[k] = c]])
        commits == Table([c \in PolyNames |-> Commit(commit_key, polys[c])])
        vk == VerifierKeyOf(circuit_size(padded), commits)
    IN  IF domain = NoDomain
        THEN Outcome("panic", composer, transcript, NoKey, NoPolys, domain)
        ELSE IF ~check_poly_same_len(composer)
        THEN Outcome("MismatchedPolyLen", composer, transcript, NoKey, NoPolys, domain)
        ELSE IF \E c \in PolyNames : ~commits[c].committed
        THEN Outcome("TooManyCoefficients", padded, transcript, NoKey, NoPolys, domain)
        ELSE Outcome("Ok", padded, seed_transcript(vk, transcript),
                     vk, [some |-> TRUE, poly |-> polys], domain)

\* a compute_vanishing_poly_over_coset that leaves the coset generator out
VanishingNoCoset(domain, poly_degree) ==
    IF ~(domain.size > poly_degree) THEN Panic
    ELSE Returned(Vec([i \in 1..domain.size |->
            Fsub(Fpow(DomainElement(domain, 1), poly_degree * (i - 1)), 1)]))

\* a compute_vanishing_poly_over_coset whose coset generator is the domain's
\* generator: the values of X^poly_degree - 1 at w * w^i
VanishingOverDomain(domain, poly_degree) ==
    IF ~(domain.size > poly_degree) THEN Panic
    ELSE LET group_gen == DomainElement(domain, 1)
             coset_gen == Fpow(group_gen, poly_degree)
         IN  Returned(Vec([i \in 1..domain.size |->
                Fsub(Fmul(coset_gen, Fpow(group_gen, poly_degree * (i - 1))), 1)]))

\* compute_vanishing_poly_over_coset: the values of X^poly_degree - 1 at
\* GENERATOR * w^i, or a panic when the domain is not larger than poly_degree
compute_vanishing_poly_over_coset(domain, poly_degree) ==
    IF ~(domain.size > poly_degree) THEN Panic
    ELSE LET group_gen == DomainElement(domain, 1)
             coset_gen == Fpow(GENERATOR, poly_degree)
         IN  Returned(Vec([i \in 1..domain.size |->
                Fsub(Fmul(coset_gen, Fpow(group_gen, poly_degree * (i - 1))), 1)]))

NoProverKey == [some |-> FALSE]

\* a preprocess_prover that seeds the transcript a second time
ProverSeedsTwice(composer, commit_key, transcript, br) ==
    LET shared == preprocess_shared(composer, commit_key, transcript, br)
    IN  [out |-> IF shared.tag = "Ok"
                 THEN [shared EXCEPT !.transcript =
                          seed_transcript(shared.verifier_key, shared.transcript)]
                 ELSE shared,
         prover_key |-> NoProverKey]

\* StandardComposer::preprocess_prover: the outcome of the shared part and the
\* ProverKey, with the values of every polynomial over the coset of size 8n
preprocess_prover(composer, commit_key, transcript, br) ==
    LET AfterShared(shared) ==
            LET domain_8n == NewDomain(8 * shared.domain.size)
                v_h_coset_8n ==
                    compute_vanishing_poly_over_coset(domain_8n, shared.domain.size)
            IN  IF shared.tag # "Ok" THEN [out |-> shared, prover_key |-> NoProverKey]
                ELSE IF domain_8n = NoDomain \/ v_h_coset_8n.tag = "panic"
                THEN [out |-> [shared EXCEPT !.tag = "panic"],
                      prover_key |-> NoProverKey]
                ELSE [out |-> shared,
                      prover_key |->
                        [some |-> TRUE,
                         n |-> shared.domain.size,
                         poly |-> shared.selectors.poly,
                         eval_8n |-> Table([c \in PolyNames |->
                                        coset_fft(domain_8n, shared.selectors.poly[c])]),
                         linear_eval_8n |-> coset_fft(domain_8n, <<0, 1>>),
                         v_h_coset_8n |-> v_h_coset_8n.val]]
    IN  Only({AfterShared(shared) :
                shared \in {preprocess_shared(composer, commit_key, transcript, br)}})

\* a preprocess_verifier that leaves the blinding out
PreprocessVerifierUnblinded(composer, commit_key, transcript, br) ==
    preprocess_shared(composer, commit_key, transcript, BlindingDefault)

\* a preprocess_verifier under which the transcript has absorbed the circuit
\* size by the time a commitment fails
PreprocessSeedsEarly(composer, commit_key, transcript, br) ==
    LET out == preprocess_shared(composer, commit_key, transcript, br)
    IN  IF out.tag = "TooManyCoefficients"
        THEN [out EXCEPT !.transcript = Append(transcript, circuit_size(out.cs))]
        ELSE out

\* StandardComposer::preprocess_verifier: the outcome of the shared part; the
\* polynomials are dropped
preprocess_verifier(composer, commit_key, transcript, br) ==
    preprocess_shared(composer, commit_key, transcript, br)

(***************************************************************************)
(* circuit.rs: the Circuit trait (compile, compile_wbr, gen_proof) and     *)
(* verify_proof, over circuits in the manner of TestCircuit.               *)
(***************************************************************************)
\* a circuit that checks a + b = c (c public), a * b = d (d public) when mul,
\* and (x, y) = f (f a public point) when point; a, b, x, y are its witness.
\* Its gadget, like that of TestCircuit, never fails and leaves self alone:
\* runs counts the invocations of a gadget that keeps count in self, fail_on
\* is the invocation that returns Err (0 for none), grows says that the
\* gadget builds one more gate from its second invocation on
TestCircuit(mul, point, a, b, c, d, x, y, f) ==
    [mul |-> mul, point |-> point, a |-> a, b |-> b, c |-> c, d |-> d,
     x |-> x, y |-> y, f |-> f, runs |-> 0, fail_on |-> 0, grows |-> FALSE]

\* an implementation of Circuit whose gadget uses its &mut self
StatefulCircuit(circuit, fail_on, grows) ==
    [circuit EXCEPT !.fail_on = fail_on, !.grows = grows]

\* the default instance: the same gadget, every value F::default()
DefaultCircuit(circuit) ==
    StatefulCircuit(
        TestCircuit(circuit.mul, circuit.point, 0, 0, 0, 0, 0, 0, [x |-> 0, y |-> 0]),
        circuit.fail_on, circuit.grows)

\* the gates TestCircuit::gadget adds to the composer
TestGates(circuit, composer) ==
    LET a == VarA
        b == VarB
        zero == zero_var(composer)
        c0 == add_input(add_input(composer, a, circuit.a), b, circuit.b)
        \* a + b = c, c as public input
        c1 == AddGate(c0, Row([q_l |-> 1, q_r |-> 1, q_arith |-> 1],
                              <<a, b, zero, zero>>, SomePi(Fneg(circuit.c))))
        \* a * b = d, d as public input
        c2 == IF circuit.mul
              THEN AddGate(c1, Row([q_m |-> 1, q_arith |-> 1],
                                   <<a, b, zero, zero>>, SomePi(Fneg(circuit.d))))
              ELSE c1
        \* assert_equal_public_point: one constraint per coordinate
        c3 == add_input(add_input(c2, VarO, circuit.x), VarY, circuit.y)
        c4 == AddGate(c3, Row([q_l |-> 1, q_arith |-> 1],
                              <<VarO, zero, zero, zero>>, SomePi(Fneg(circuit.f.x))))
        c5 == AddGate(c4, Row([q_l |-> 1, q_arith |-> 1],
                              <<VarY, zero, zero, zero>>, SomePi(Fneg(circuit.f.y))))
    IN  IF circuit.point THEN c5 ELSE c2

\* Circuit::gadget(&mut self, composer) -> Result<(), Error>: the composer it
\* filled, the circuit as the call leaves it, and Ok or the gadget's error
gadget(circuit, composer) ==
    LET stateful == circuit.fail_on # 0 \/ circuit.grows
        after == IF stateful THEN [circuit EXCEPT !.runs = @ + 1] ELSE circuit
        built == IF circuit.grows /\ after.runs >= 2
                 THEN [circuit EXCEPT !.mul = TRUE]
                 ELSE circuit
    IN  IF stateful /\ after.runs = circuit.fail_on
        THEN [tag |-> "GadgetError", composer |-> composer, circuit |-> after]
        ELSE [tag |-> "Ok", composer |-> TestGates(built, composer), circuit |-> after]

\* Circuit::padded_circuit_size, as the circuit declares it
padded_circuit_size(circuit) ==
    next_power_of_two(1 + (IF circuit.mul THEN 1 ELSE 0) + (IF circuit.point THEN 2 ELSE 0))

\* SonicKZG10::trim(u_params, supported_degree, 0, None): the number of powers
\* of the committer key, or an error when the parameters are too small
Trim(u_params, supported_degree) ==
    IF supported_degree > u_params THEN [ok |-> FALSE, powers |-> 0]
    ELSE [ok |-> TRUE, powers |-> supported_degree + 1]

\* a compile_wbr that hands br to the verifier's preprocessing only
CompileProverUnblinded(circuit, u_params, br) ==
    LET ck == Trim(u_params, padded_circuit_size(circuit) + 6)
        prover_cs == gadget(circuit, NewComposer).composer
        Compiled(p, v) ==
            IF p.out.tag # "Ok" THEN [tag |-> p.out.tag]
            ELSE IF v.tag # "Ok" THEN [tag |-> v.tag]
            ELSE [tag |-> "Ok", prover_key |-> p.prover_key,
                  verifier_data |-> [key |-> v.verifier_key,
                                     pi_pos |-> pi_positions(prover_cs)],
                  circuit |-> circuit, trace |-> <<>>]
    IN  IF ~ck.ok THEN [tag |-> "panic"]
        ELSE Only({Compiled(p, v) :
                p \in {preprocess_prover(prover_cs, ck.powers,
                                         NewTranscript("CircuitCompilation"),
                                         BlindingDefault)},
                v \in {preprocess_verifier(prover_cs, ck.powers,
                                           NewTranscript("CircuitCompilation"), br)}})

\* a compile_wbr that goes on after an error of the second gadget invocation
CompileIgnoresSecondError(circuit, u_params, br) ==
    LET ck == Trim(u_params, padded_circuit_size(circuit) + 6)
        first == gadget(circuit, NewComposer)
        second == gadget(first.circuit, NewComposer)
        Compiled(p, v) ==
            IF p.out.tag # "Ok" THEN [tag |-> p.out.tag, circuit |-> second.circuit,
                                      trace |-> <<"gadget", "preprocess">>]
            ELSE IF v.tag # "Ok" THEN [tag |-> v.tag, circuit |-> second.circuit,
                                       trace |-> <<"gadget", "preprocess", "gadget",
                                                   "preprocess">>]
            ELSE [tag |-> "Ok", prover_key |-> p.prover_key,
                  verifier_data |-> [key |-> v.verifier_key,
                                     pi_pos |-> pi_positions(first.composer)],
                  circuit |-> second.circuit,
                  trace |-> <<"gadget", "preprocess", "gadget", "preprocess">>]
    IN  IF ~ck.ok THEN [tag |-> "panic"]
        ELSE IF first.tag # "Ok"
        THEN [tag |-> first.tag, circuit |-> first.circuit, trace |-> <<"gadget">>]
        ELSE Only({Compiled(p, v) :
                p \in {preprocess_prover(first.composer, ck.powers,
                                         NewTranscript("CircuitCompilation"), br)},
                v \in {preprocess_verifier(second.composer, ck.powers,
                                           NewTranscript("CircuitCompilation"), br)}})

\* Circuit::compile_wbr: its result, with the circuit as the call leaves it
\* (&mut self) and the calls it made, in order
compile_wbr(circuit, u_params, br) ==
    LET padded_size == padded_circuit_size(circuit)
        ck == Trim(u_params, padded_size + 6)
        \* Prover::new, the gadget, pi_positions, Prover::preprocess_wbr
        first == gadget(circuit, NewComposer)
        pi_pos == pi_positions(first.composer)
        \* Verifier::new, the gadget, Verifier::preprocess_wbr
        second == gadget(first.circuit, NewComposer)
        AfterVerifier(p, v) ==
            IF v.tag # "Ok"
            THEN [tag |-> v.tag, circuit |-> second.circuit,
                  trace |-> <<"gadget", "preprocess", "gadget", "preprocess">>]
            ELSE [tag |-> "Ok", prover_key |-> p.prover_key,
                  verifier_data |-> [key |-> v.verifier_key, pi_pos |-> pi_pos],
                  circuit |-> second.circuit,
                  trace |-> <<"gadget", "preprocess", "gadget", "preprocess">>]
        AfterProver(p) ==
            IF p.out.tag # "Ok"
            THEN [tag |-> p.out.tag, circuit |-> first.circuit,
                  trace |-> <<"gadget", "preprocess">>]
            ELSE IF second.tag # "Ok"
            THEN [tag |-> second.tag, circuit |-> second.circuit,
                  trace |-> <<"gadget", "preprocess", "gadget">>]
            ELSE Only({AfterVerifier(p, v) :
                    v \in {preprocess_verifier(second.composer, ck.powers,
                                               NewTranscript("CircuitCompilation"), br)}})
    IN  IF ~ck.ok THEN [tag |-> "panic"]
        ELSE IF first.tag # "Ok"
        THEN [tag |-> first.tag, circuit |-> first.circuit, trace |-> <<"gadget">>]
        ELSE Only({AfterProver(p) :
                p \in {preprocess_prover(first.composer, ck.powers,
                                         NewTranscript("CircuitCompilation"), br)}})

\* Circuit::compile
compile(circuit, u_params) ==
    LET br == BlindingDefault
    IN  compile_wbr(circuit, u_params, br)

\* StandardComposer::construct_dense_pi_vec: the public inputs the composer
\* stores, by row, over the size rows of the domain
DensePi(composer, size) ==
    Vec([i \in 1..size |->
            IF \E e \in composer.public_inputs : e[1] = i - 1
            THEN (CHOOSE e \in composer.public_inputs : e[1] = i - 1)[2]
            ELSE 0])

\* the value of the gate constraint on row i of the domain, under the key's
\* selector polynomials and the composer's witness:
\* q_arith (q_m a b + q_l a + q_r b + q_o o + q_4 d + q_c) + PI
GateValue(composer, key, domain, pi, i) ==
    LET z == DomainElement(domain, i - 1)
        q(c) == PolyEval(key.poly[c], z)
        w(k) == IF i <= Len(composer.col[WireNames[k]])
                THEN composer.witnesses[composer.col[WireNames[k]][i]]
                ELSE 0
        products == Fadd(Fmul(q("q_m"), Fmul(w(1), w(2))),
                    Fadd(Fmul(q("q_l"), w(1)),
                    Fadd(Fmul(q("q_r"), w(2)),
                    Fadd(Fmul(q("q_o"), w(3)),
                    Fadd(Fmul(q("q_4"), w(4)), q("q_c"))))))
    IN  Fadd(Fmul(q("q_arith"), products), pi[i])

\* the selectors of the other widgets vanish on row i
NoCustomGate(key, domain, i) ==
    \A c \in {"q_range", "q_logic", "q_fixed_group_add", "q_variable_group_add"} :
        PolyEval(key.poly[c], DomainElement(domain, i - 1)) = 0

\* Prover::prove: the proof binds the transcript it was made under, the
\* public inputs of the composer and the polynomials of the key, and is
\* convincing exactly when every row satisfies its gate constraint
Prove(composer, key, transcript) ==
    LET domain == NewDomain(circuit_size(composer))
        pi == DensePi(composer, domain.size)
    IN  [transcript |-> transcript,
         n |-> domain.size,
         public_inputs |-> pi,
         com |-> Table([c \in PolyNames |-> PolyTrunc(key.poly[c])]),
         satisfied |-> /\ key.n = domain.size
                       /\ \A i \in 1..domain.size :
                            /\ GateValue(composer, key, domain, pi, i) = 0
                            /\ NoCustomGate(key, domain, i)]

\* Proof::verify: accepts exactly a convincing proof made for the polynomials
\* the key commits to, under the same transcript and the same public inputs
ProofVerify(proof, vk, transcript, public_inputs) ==
    IF /\ proof.satisfied
       /\ proof.n = vk.n
       /\ \A c \in PolyNames : vk.com[c].to = proof.com[c]
       /\ proof.transcript = transcript
       /\ proof.public_inputs = public_inputs
    THEN [tag |-> "Ok"]
    ELSE [tag |-> "ProofVerificationError"]

\* Verifier::verify: unwraps the key, verifies under a clone of the transcript
verify(verifier, proof, public_inputs) ==
    IF ~verifier.verifier_key.some THEN Panic
    ELSE ProofVerify(proof, verifier.verifier_key,
                     verifier.preprocessed_transcript, public_inputs)

\* Circuit::gen_proof: its result, with the circuit as the call leaves it and
\* the calls it made
gen_proof(circuit, u_params, key, transcript_init) ==
    LET padded_size == padded_circuit_size(circuit)
        ck == Trim(u_params, padded_size + 6)
        filled == gadget(circuit, NewComposer)
    IN  IF ~ck.ok THEN Panic
        ELSE IF filled.tag # "Ok"
        THEN [tag |-> filled.tag, circuit |-> filled.circuit, trace |-> <<"gadget">>]
        ELSE [tag |-> "Ok", circuit |-> filled.circuit, trace |-> <<"gadget", "prove">>,
              proof |-> Prove(filled.composer, key, NewTranscript(transcript_init))]

\* verify_proof
verify_proof(u_params, plonk_verifier_key, proof, pub_inputs_values, pub_inputs_positions, transcript_init) ==
    LET verifier == [verifier_key |-> plonk_verifier_key,
                     preprocessed_transcript |-> NewTranscript(transcript_init)]
        padded_size == plonk_verifier_key.n
        sonic_vk == Trim(u_params, padded_size + 6)
        pi == build_pi(PubInputValues(pub_inputs_values), pub_inputs_positions,
                       padded_size)
    IN  IF ~sonic_vk.ok THEN Panic
        ELSE IF pi.tag = "panic" THEN Panic
        ELSE verify(verifier, proof, pi.val)

(***************************************************************************)
(* circuit.rs: BlindingRandomness::new over a random source, and the       *)
(* serialisation of VerifierData (CanonicalSerialize, derived: the fields  *)
(* in their order; a usize as 8 little-endian bytes, a Vec as its length   *)
(* and its elements).                                                      *)
(***************************************************************************)
\* BlindingRandomness::new(): the value, and what is left of the random
\* source, whose outputs are source[1], source[2], ...
new(source) == [r |-> BlindingNew(Head(source)), rest |-> Tail(source)]

\* a usize as k little-endian bytes
RECURSIVE Bytes(_, _)
Bytes(x, k) == IF k = 0 THEN <<>> ELSE <<x % 256>> \o Bytes(x \div 256, k - 1)

\* and back
RECURSIVE FromBytes(_)
FromBytes(b) == IF b = <<>> THEN 0 ELSE Head(b) + 256 * FromBytes(Tail(b))

\* the order of the key's commitments
PolyOrder == SelectorNames \o SigmaNames

\* a commitment: its length and its field elements, a byte each
SerializeCommitment(c) == <<Len(c.to)>> \o c.to

\* the VerifierKey: its size, then its commitments
SerializeKey(key) ==
    Bytes(key.n, 8)
        \o Flatten([k \in 1..Len(PolyOrder) |-> SerializeCommitment(key.com[PolyOrder[k]])])

\* a serialize that leaves out the length of pi_pos
SerializeNoLength(v) ==
    SerializeKey(v.key) \o Flatten([i \in 1..Len(v.pi_pos) |-> Bytes(v.pi_pos[i], 8)])

\* VerifierData::serialize: key, then pi_pos
serialize(v) ==
    SerializeKey(v.key)
        \o Bytes(Len(v.pi_pos), 8)
        \o Flatten([i \in 1..Len(v.pi_pos) |-> Bytes(v.pi_pos[i], 8)])

NoRead == [ok |-> FALSE, val |-> 0, next |-> 0]

\* reads a usize at byte at
ReadUsize(b, at) ==
    IF at + 7 > Len(b) THEN NoRead
    ELSE [ok |-> TRUE, val |-> FromBytes(SubSeq(b, at, at + 7)), next |-> at + 8]

\* reads count commitments from byte at on
RECURSIVE ReadCommitments(_, _, _, _)
ReadCommitments(b, at, count, acc) ==
    IF count = 0 THEN [ok |-> TRUE, val |-> acc, next |-> at]
    ELSE IF at > Len(b) \/ at + b[at] > Len(b) THEN NoRead
    ELSE ReadCommitments(b, at + 1 + b[at], count - 1,
                         Append(acc, [committed |-> TRUE,
                                      to |-> SubSeq(b, at + 1, at + b[at])]))

\* reads count positions from byte at on
RECURSIVE ReadPositions(_, _, _, _)
ReadPositions(b, at, count, acc) ==
    IF count = 0 THEN [ok |-> TRUE, val |-> acc, next |-> at]
    ELSE LET x == ReadUsize(b, at)
         IN  IF ~x.ok THEN NoRead
             ELSE ReadPositions(b, x.next, count - 1, Append(acc, x.val))

\* VerifierData::deserialize
deserialize(b) ==
    LET n == ReadUsize(b, 1)
        com == ReadCommitments(b, n.next, Len(PolyOrder), <<>>)
        len == ReadUsize(b, com.next)
        pos == ReadPositions(b, len.next, len.val, <<>>)
    IN  IF ~n.ok \/ ~com.ok \/ ~len.ok \/ ~pos.ok THEN [tag |-> "Err"]
        ELSE [tag |-> "Ok",
              val |-> [key |-> VerifierKeyOf(n.val,
                          [c \in PolyNames |->
                              com.val[CHOOSE k \in 1..Len(PolyOrder) : PolyOrder[k] = c]]),
                       pi_pos |-> pos.val]]

(***************************************************************************)
(* SpecFn: the pure functions, applied to arguments drawn from bounded     *)
(* sets.                                                                   *)
(***************************************************************************)
NotRun == [tag |-> "not run"]


RawInputs == {FeInput(25), FeInput(1), GeInput(3, 4)}

BuildPiArgs ==
    [op : {"build_pi"},
     inputs : SeqUpTo(RawInputs, MaxPi),
     pos : SeqUpTo(0..MaxTrim, MaxPi),
     trim_size : 0..MaxTrim]

\* coefficient vectors as ifft leaves them: of any length, leading zeros kept
BlinderPolys == SeqUpTo({0, 1, P - 1}, 3)

AddBlinderArgs ==
    [op : {"add_blinder"},
     polynomial : BlinderPolys,
     n : 1..MaxBlindN,
     hiding_coef : [1..2 -> {0, 1, 3}]]

\* the largest degree asked of compute_vanishing_poly_over_coset, and the
\* largest domain, as a power of two
MaxDegree == 5
MaxLogSize == 2

VanishingArgs ==
    [op : {"vanishing"}, log_size : 0..MaxLogSize, poly_degree : 0..MaxDegree]

\* the first seed of a random source
MaxSeed == 3

\* random sources: the outputs that follow one another
RandomSources ==
    {[i \in 1..2 * NumSelectors |-> (seed + step * (i - 1)) % P] :
        seed \in 0..MaxSeed, step \in 0..2}

NewArgs == [op : {"new"}, source : RandomSources]

\* VerifierData values: keys as preprocessing returns them, and positions
VerifierDataValues ==
    [key : {preprocess_verifier(
                gadget(TestCircuit(mul, FALSE, 2, 3, 5, 6, 3, 4, [x |-> 3, y |-> 4]),
                       NewComposer).composer,
                12, NewTranscript("CircuitCompilation"), br).verifier_key :
              mul \in BOOLEAN, br \in {BlindingDefault, BlindingDistinct}},
     pi_pos : SeqUpTo({0, 3, 300, 70000}, MaxPi)]

SerializeArgs == [op : {"serialize"}, data : VerifierDataValues]

\* no circuit is on its way
NoPipe ==
    [stage |-> "none", circuit |-> NotRun, u_params |-> 0, how |-> NotRun,
     compiled |-> NotRun, label |-> "", proved |-> NotRun, call |-> NotRun,
     verdict |-> NotRun,
     again |-> NotRun, verdict2 |-> NotRun, second |-> NotRun]

\* no verify call has been made, no preprocessing has run
NoSession == [calls |-> <<>>, preprocess_count |-> 0, proofs |-> <<>>]

\* the other specifications' variables, which SpecFn leaves alone
Idle(op) == [op |-> op, tag |-> "Ok", commit_key |-> 0, br |-> BlindingDefault, diff |-> 0]

CsIdle ==
    /\ cs = NewComposer
    /\ preprocessed_transcript = NewTranscript("plonk")
    /\ verifier_key = NoKey
    /\ prover_key = NoProverKey
    /\ last = Idle("new")
    /\ pipe = NoPipe
    /\ session = NoSession

InitFn ==
    /\ fnIn \in BuildPiArgs \cup AddBlinderArgs \cup VanishingArgs \cup NewArgs
                \cup SerializeArgs
    /\ fnOut = NotRun
    /\ CsIdle

RunBuildPi ==
    /\ fnOut = NotRun
    /\ fnIn.op = "build_pi"
    /\ fnOut' = build_pi(PubInputValues(fnIn.inputs), fnIn.pos, fnIn.trim_size)
    /\ UNCHANGED <<fnIn, csVars, pipe, session>>

RunAddBlinder ==
    /\ fnOut = NotRun
    /\ fnIn.op = "add_blinder"
    /\ fnOut' = Returned(add_blinder(fnIn.polynomial, fnIn.n, fnIn.hiding_coef))
    /\ UNCHANGED <<fnIn, csVars, pipe, session>>

RunVanishing ==
    /\ fnOut = NotRun
    /\ fnIn.op = "vanishing"
    /\ fnOut' = compute_vanishing_poly_over_coset(NewDomain(Pow2(fnIn.log_size)),
                                                   fnIn.poly_degree)
    /\ UNCHANGED <<fnIn, csVars, pipe, session>>

RunNew ==
    /\ fnOut = NotRun
    /\ fnIn.op = "new"
    /\ fnOut' = Returned(new(fnIn.source))
    /\ UNCHANGED <<fnIn, csVars, pipe, session>>

\* verifier_data.serialize(&mut bytes), then VerifierData::deserialize(bytes)
RunSerialize ==
    /\ fnOut = NotRun
    /\ fnIn.op = "serialize"
    /\ fnOut' = deserialize(serialize(fnIn.data))
    /\ UNCHANGED <<fnIn, csVars, pipe, session>>

NextFn == RunBuildPi \/ RunAddBlinder \/ RunVanishing \/ RunNew \/ RunSerialize

SpecFn == InitFn /\ [][NextFn]_vars

(***************************************************************************)
(* Properties of build_pi and add_blinder, checked under SpecFn.           *)
(***************************************************************************)
\* the flattened value list: one entry per field element, x then y per point
RECURSIVE FlatValues(_)
FlatValues(inputs) ==
    IF inputs = <<>> THEN <<>>
    ELSE (IF Head(inputs).kind = "fe" THEN <<Head(inputs).x>>
          ELSE <<Head(inputs).x, Head(inputs).y>>) \o FlatValues(Tail(inputs))

\* as many positions as flattened values, pairwise distinct, all < trim_size
BuildPiWellFormed ==
    /\ fnIn.op = "build_pi"
    /\ Len(FlatValues(fnIn.inputs)) = Len(fnIn.pos)
    /\ \A i, j \in 1..Len(fnIn.pos) : i # j => fnIn.pos[i] # fnIn.pos[j]
    /\ \A i \in 1..Len(fnIn.pos) : fnIn.pos[i] < fnIn.trim_size

\* C3: the vector build_pi returns has length trim_size; when the flattened
\* values are as many as the positions and the positions are pairwise
\* distinct and below trim_size, build_pi returns, entry positions[i] is the
\* negation of the i-th flattened value and every other entry is zero.
C3_BuildPiDense ==
    (fnIn.op = "build_pi" /\ fnOut # NotRun) =>
        /\ fnOut.tag = "returned" => Len(fnOut.val) = fnIn.trim_size
        /\ BuildPiWellFormed =>
            /\ fnOut.tag = "returned"
            /\ \A i \in 1..Len(fnIn.pos) :
                 fnOut.val[fnIn.pos[i] + 1] = (P - FlatValues(fnIn.inputs)[i]) % P
            /\ \A j \in 1..fnIn.trim_size :
                 (\A i \in 1..Len(fnIn.pos) : fnIn.pos[i] + 1 # j) => fnOut.val[j] = 0

\* build_pi has run on a point and two positions, and placed both coordinates
C3_Witness ==
    /\ BuildPiWellFormed
    /\ fnOut # NotRun
    /\ \E i \in 1..Len(fnIn.inputs) : fnIn.inputs[i].kind = "ge"
    /\ fnIn.trim_size > Len(fnIn.pos)
    /\ Cardinality({j \in 1..fnIn.trim_size : fnOut.val[j] # 0}) = 2

\* coefficient j (from 1) of p + (r[1] + r[2] X) (X^n - 1)
BlindedCoef(p, n, r, j) ==
    (Coef(p, j)
        + (IF j = 1 THEN P - r[1] ELSE 0) + (IF j = 2 THEN P - r[2] ELSE 0)
        + (IF j = n + 1 THEN r[1] ELSE 0) + (IF j = n + 2 THEN r[2] ELSE 0)) % P

\* the n-th roots of unity of the field
RootsOfUnity(n) == {x \in Fe : Fpow(x, n) = 1}

\* C8: add_blinder(p, n, [r0, r1]) is the polynomial p + (r0 + r1 X)(X^n - 1),
\* and takes the value of p at every n-th root of unity.
C8_BlinderOnDomain ==
    (fnIn.op = "add_blinder" /\ fnOut # NotRun) =>
        /\ \A j \in 1..(Max(Len(fnIn.polynomial), Len(fnOut.val)) + fnIn.n + 2) :
             Coef(fnOut.val, j) = BlindedCoef(fnIn.polynomial, fnIn.n, fnIn.hiding_coef, j)
        /\ \A x \in RootsOfUnity(fnIn.n) :
             PolyEval(fnOut.val, x) = PolyEval(fnIn.polynomial, x)

\* add_blinder has run with both coefficients non-zero on a polynomial that
\* the blinder overlaps, over a domain of more than one point
C8_Witness ==
    /\ fnIn.op = "add_blinder"
    /\ fnOut # NotRun
    /\ fnIn.hiding_coef[1] # 0 /\ fnIn.hiding_coef[2] # 0
    /\ Len(fnIn.polynomial) > fnIn.n /\ PolyTrunc(fnIn.polynomial) = fnIn.polynomial
    /\ Cardinality(RootsOfUnity(fnIn.n)) > 1
    /\ fnOut.val # fnIn.polynomial

(***************************************************************************)
(* Spec: one composer with its transcript, as a Prover or a Verifier       *)
(* holds them, and the calls that fill, pad and preprocess it.             *)
(***************************************************************************)
\* a gadget: up to MaxGates consecutive gates of GateList (cyclically)
Gadgets ==
    {[i \in 1..m |-> GateList[((s + i - 2) % Len(GateList)) + 1]] :
        s \in 1..Len(GateList), m \in 0..MaxGates}

\* commit keys: too few powers for most circuits, and enough for all
CommitKeys == {2, 12}

Blindings == {BlindingDefault, BlindingDistinct}

\* the composer is built: a preprocessing call may follow
Built == {"gadget", "push", "pad"}

\* the field has a subgroup of 8 times the padded size (in the fields the
\* crate is used with, for every circuit that fits in memory)
FitsField(n) == 8 * next_power_of_two(n) <= Pow2(TWO_ADICITY)

\* Verifier::new(b"plonk")
Init ==
    /\ CsIdle
    /\ fnIn = [op |-> "none"]
    /\ fnOut = NotRun

\* circuit.gadget(verifier.mut_cs()) on the new composer
Gadget(gates) ==
    /\ last.op = "new"
    /\ pipe.stage = "none"
    /\ cs' = RunGates(cs, gates)
    /\ last' = Idle("gadget")
    /\ UNCHANGED <<preprocessed_transcript, verifier_key, prover_key, fnVars, session, pipe>>

\* code of the crate pushes onto one column alone (the columns are pub(crate))
PushColumn(c) ==
    /\ last.op = "gadget"
    /\ Len(cs.col[c]) = cs.n
    /\ cs' = [cs EXCEPT !.col[c] = Append(@, 0)]
    /\ last' = Idle("push")
    /\ UNCHANGED <<preprocessed_transcript, verifier_key, prover_key, fnVars, session, pipe>>

\* composer.pad(diff), as the crate's tests call it
Pad(diff) ==
    /\ last.op = "gadget"
    /\ FitsField(cs.n + diff)
    /\ cs' = pad(cs, diff)
    /\ last' = [Idle("pad") EXCEPT !.diff = diff]
    /\ UNCHANGED <<preprocessed_transcript, verifier_key, prover_key, fnVars, session, pipe>>

\* Verifier::preprocess_wbr
VerifierPreprocessWbr(commit_key, br) ==
    /\ last.op \in Built
    /\ FitsField(cs.n)
    /\ \E out \in {preprocess_verifier(cs, commit_key, preprocessed_transcript, br)} :
        /\ cs' = out.cs
        /\ preprocessed_transcript' = out.transcript
        /\ verifier_key' = IF out.tag = "Ok" THEN out.verifier_key ELSE verifier_key
        /\ last' = [op |-> "preprocess_wbr", tag |-> out.tag,
                    commit_key |-> commit_key, br |-> br, diff |-> 0]
        /\ UNCHANGED <<prover_key, fnVars, session, pipe>>

\* Verifier::preprocess
VerifierPreprocess(commit_key) ==
    /\ last.op \in Built
    /\ FitsField(cs.n)
    /\ \E br \in {BlindingDefault} :
       \E out \in {preprocess_verifier(cs, commit_key, preprocessed_transcript, br)} :
        /\ cs' = out.cs
        /\ preprocessed_transcript' = out.transcript
        /\ verifier_key' = IF out.tag = "Ok" THEN out.verifier_key ELSE verifier_key
        /\ last' = [op |-> "preprocess", tag |-> out.tag,
                    commit_key |-> commit_key, br |-> br, diff |-> 0]
        /\ UNCHANGED <<prover_key, fnVars, session, pipe>>

\* cs.preprocess_prover(commit_key, &mut preprocessed_transcript, br)
PreprocessProver(commit_key, br) ==
    /\ last.op \in Built
    /\ FitsField(cs.n)
    /\ \E r \in {preprocess_prover(cs, commit_key, preprocessed_transcript, br)} :
        /\ cs' = r.out.cs
        /\ preprocessed_transcript' = r.out.transcript
        /\ prover_key' = IF r.out.tag = "Ok" THEN r.prover_key ELSE prover_key
        /\ last' = [op |-> "preprocess_prover", tag |-> r.out.tag,
                    commit_key |-> commit_key, br |-> br, diff |-> 0]
        /\ UNCHANGED <<verifier_key, fnVars, session, pipe>>

\* the circuits on their way: with a witness that satisfies them or not
PipeCircuits ==
    {TestCircuit(mul, point, a, 3, IF sat THEN a + 3 ELSE a + 4, a * 3,
                 3, 4, [x |-> 3, y |-> 4]) :
        mul \in BOOLEAN, point \in BOOLEAN, a \in {0, 2}, sat \in BOOLEAN}

\* universal parameters: too small for the circuits of four rows, and large enough
UParams == {8, 12}

Labels == {"Test", "Other"}

\* the public inputs of the circuit, as its verifier lists them
CorrectValues(circuit) ==
    <<FeInput(circuit.c)>>
        \o (IF circuit.mul THEN <<FeInput(circuit.d)>> ELSE <<>>)
        \o (IF circuit.point THEN <<GeInput(circuit.f.x, circuit.f.y)>> ELSE <<>>)

\* the public input with one of its values changed
Changed(inp, k) ==
    IF inp.kind = "fe" THEN FeInput(Fadd(inp.x, 1))
    ELSE IF k = 1 THEN GeInput(Fadd(inp.x, 1), inp.y)
    ELSE GeInput(inp.x, Fadd(inp.y, 1))

\* what a caller may hand to verify_proof as values: the right ones, one of
\* them changed, one more than there are positions
ValueChoices(circuit) ==
    LET right == CorrectValues(circuit)
    IN  {right}
            \cup {[right EXCEPT ![i] = Changed(right[i], k)] : i \in 1..Len(right), k \in 1..2}
            \cup {Append(right, FeInput(v)) : v \in {7, 8}}

\* and as positions: the ones compile returned, all but the last, the last
\* repeating the first, the last out of the vector
PositionChoices(pi_pos, size) ==
    {pi_pos, SubSeq(pi_pos, 1, Len(pi_pos) - 1),
     [pi_pos EXCEPT ![Len(pi_pos)] = pi_pos[1]],
     [pi_pos EXCEPT ![Len(pi_pos)] = size]}

\* a circuit and universal parameters are chosen
NewCircuit(circuit, u_params) ==
    /\ pipe.stage = "none"
    /\ last.op = "new"
    /\ pipe' = [NoPipe EXCEPT !.stage = "circuit", !.circuit = circuit,
                              !.u_params = u_params]
    /\ UNCHANGED <<csVars, fnVars, session>>

\* circuit.compile(&pp) on the circuit or on its default instance; the
\* circuit is left as the gadget invocations left it
Compile(on_default) ==
    /\ pipe.stage = "circuit"
    /\ \E inst \in {IF on_default THEN DefaultCircuit(pipe.circuit) ELSE pipe.circuit} :
       \E r \in {compile(inst, pipe.u_params)} :
        pipe' = [pipe EXCEPT !.stage = "compiled",
                             !.how = [fn |-> "compile", br |-> BlindingDefault,
                                      on_default |-> on_default],
                             !.circuit = IF on_default \/ r.tag = "panic"
                                         THEN @ ELSE r.circuit,
                             !.compiled = r]
    /\ UNCHANGED <<csVars, fnVars, session>>

\* circuit.compile_wbr(&pp, &br)
CompileWbr(br, on_default) ==
    /\ pipe.stage = "circuit"
    /\ \E inst \in {IF on_default THEN DefaultCircuit(pipe.circuit) ELSE pipe.circuit} :
       \E r \in {compile_wbr(inst, pipe.u_params, br)} :
        pipe' = [pipe EXCEPT !.stage = "compiled",
                             !.how = [fn |-> "compile_wbr", br |-> br,
                                      on_default |-> on_default],
                             !.circuit = IF on_default \/ r.tag = "panic"
                                         THEN @ ELSE r.circuit,
                             !.compiled = r]
    /\ UNCHANGED <<csVars, fnVars, session>>

\* circuit.gen_proof(&pp, pk, label): the ProverKey is moved into the call
GenProof(label) ==
    /\ pipe.stage = "compiled"
    /\ pipe.compiled.tag = "Ok"
    /\ \E r \in {gen_proof(pipe.circuit, pipe.u_params, pipe.compiled.prover_key, label)} :
        pipe' = [pipe EXCEPT !.stage = "proved",
                             !.compiled.prover_key = NoProverKey,
                             !.label = label,
                             !.circuit = IF r.tag = "panic" THEN @ ELSE r.circuit,
                             !.proved = r]
    /\ UNCHANGED <<csVars, fnVars, session>>

\* verify_proof(&pp, key, &proof, &values, &positions, label)
VerifyProof ==
    /\ pipe.stage = "proved"
    /\ pipe.proved.tag = "Ok"
    /\ \E values \in ValueChoices(pipe.circuit),
          positions \in PositionChoices(pipe.compiled.verifier_data.pi_pos,
                                        pipe.compiled.verifier_data.key.n),
          label \in Labels :
        pipe' = [pipe EXCEPT
                  !.stage = "verified",
                  !.call = [values |-> values, positions |-> positions, label |-> label],
                  !.verdict = verify_proof(pipe.u_params, pipe.compiled.verifier_data.key,
                                           pipe.proved.proof, values, positions, label)]
    /\ UNCHANGED <<csVars, fnVars, session>>

\* verify_proof once more after an Ok, with the same proof, key, positions
\* and label, and with values of the caller's choice
VerifyProofAgain ==
    /\ pipe.stage = "verified"
    /\ pipe.verdict.tag = "Ok"
    /\ \E values \in ValueChoices(pipe.circuit) :
        pipe' = [pipe EXCEPT
                  !.stage = "reverified",
                  !.again = values,
                  !.verdict2 = verify_proof(pipe.u_params, pipe.compiled.verifier_data.key,
                                            pipe.proved.proof, values,
                                            pipe.call.positions, pipe.call.label)]
    /\ UNCHANGED <<csVars, fnVars, session>>

Next ==
    \/ \E gates \in Gadgets : Gadget(gates)
    \/ \E c \in Columns : PushColumn(c)
    \/ \E diff \in 0..MaxDiff : Pad(diff)
    \/ \E commit_key \in CommitKeys : VerifierPreprocess(commit_key)
    \/ \E commit_key \in CommitKeys, br \in Blindings : VerifierPreprocessWbr(commit_key, br)
    \/ \E commit_key \in CommitKeys, br \in Blindings : PreprocessProver(commit_key, br)
    \/ \E circuit \in PipeCircuits, u_params \in UParams : NewCircuit(circuit, u_params)
    \/ \E on_default \in BOOLEAN : Compile(on_default)
    \/ \E br \in Blindings, on_default \in BOOLEAN : CompileWbr(br, on_default)
    \/ GenProof("Test")
    \/ VerifyProof
    \/ VerifyProofAgain

Spec == Init /\ [][Next]_vars

(***************************************************************************)
(* Properties of the length check, of padding and of the two preprocessing *)
(* entry points, checked under Spec.                                       *)
(***************************************************************************)
PreprocessOps == {"preprocess", "preprocess_wbr", "preprocess_prover"}

\* this step is a preprocessing call on the composer
PreprocessStep == last.op \in Built /\ last'.op \in PreprocessOps

\* this step is a direct call of pad
PadStep == last.op = "gadget" /\ last'.op = "pad"

\* some selector or wire column is not as long as another
SomeColumnDiffers(composer) ==
    \E c, d \in Columns : Len(composer.col[c]) # Len(composer.col[d])

\* m is a power of two
PowerOfTwo(m) == \E k \in 0..TWO_ADICITY : m = 2 ^ k

\* C4: a preprocessing call on a composer with a column of another length
\* returns MismatchedPolyLen, and a call that returns it has changed neither
\* a column, nor n, nor the transcript.
C4_LengthCheckFirst ==
    [][PreprocessStep =>
        /\ SomeColumnDiffers(cs) => last'.tag = "MismatchedPolyLen"
        /\ last'.tag = "MismatchedPolyLen" =>
            /\ cs'.col = cs.col /\ cs'.n = cs.n
            /\ preprocessed_transcript' = preprocessed_transcript]_vars

\* preprocess_prover has refused a composer whose fourth wire column is longer
C4_Witness ==
    /\ last.op = "preprocess_prover"
    /\ last.tag = "MismatchedPolyLen"
    /\ Len(cs.col["w_4"]) = cs.n + 1
    /\ Len(cs.col["q_m"]) = cs.n
    /\ ~PowerOfTwo(cs.n)

\* C5: on a composer of n >= 1 gates whose columns all have length n, padding
\* by what preprocessing computes leaves n' the least power of two >= n and
\* every column, q_4 and w_4 included, of length n'; the rows appended are
\* zero in the selector columns and the zero variable in the wire columns.
C5_PadToPowerOfTwo ==
    [][((PreprocessStep \/ (PadStep /\ PowerOfTwo(cs.n + last'.diff)
                                     /\ \A m \in cs.n..(cs.n + last'.diff - 1) : ~PowerOfTwo(m)))
        /\ cs.n >= 1 /\ \A c \in Columns : Len(cs.col[c]) = cs.n) =>
        /\ cs'.n >= cs.n /\ PowerOfTwo(cs'.n)
        /\ \A m \in cs.n..(cs'.n - 1) : ~PowerOfTwo(m)
        /\ \A c \in Columns : Len(cs'.col[c]) = cs'.n
        /\ \A c \in Selectors : \A i \in (cs.n + 1)..cs'.n : cs'.col[c][i] = 0
        /\ \A c \in Wires : \A i \in (cs.n + 1)..cs'.n : cs'.col[c][i] = ZeroVar]_vars

\* a preprocessing call has padded three gates to four
C5_Witness ==
    /\ last.op \in PreprocessOps
    /\ last.tag = "Ok"
    /\ cs.n = 4
    /\ cs.col["q_arith"][3] # 0 /\ cs.col["q_arith"][4] = 0
    /\ cs.col["w_l"][3] # ZeroVar /\ cs.col["w_l"][4] = ZeroVar
    /\ Len(cs.col["q_4"]) = 4 /\ Len(cs.col["w_4"]) = 4

\* C6: when n is already a power of two the padding of a preprocessing call
\* appends nothing: the columns and n are the same before and after, also
\* when the composer had been padded before the call.
C6_PadIdempotent ==
    [][(PreprocessStep /\ PowerOfTwo(cs.n)) =>
        cs'.col = cs.col /\ cs'.n = cs.n]_vars

\* Verifier::preprocess has succeeded on a composer of two gates, which it
\* left at two rows
C6_Witness ==
    /\ last.op = "preprocess"
    /\ last.tag = "Ok"
    /\ cs.n = 2
    /\ \A i \in 1..2 : \E c \in Selectors : cs.col[c][i] # 0
    /\ verifier_key.some /\ verifier_key.n = 2

\* C7: padding only appends: the rows a column had are unchanged, and so are
\* the public-input positions and the permutation.
C7_PadFrame ==
    [][(PreprocessStep \/ PadStep) =>
        /\ \A c \in Columns :
             /\ Len(cs'.col[c]) >= Len(cs.col[c])
             /\ \A i \in 1..Len(cs.col[c]) : cs'.col[c][i] = cs.col[c][i]
        /\ pi_positions(cs') = pi_positions(cs)
        /\ cs'.public_inputs = cs.public_inputs
        /\ cs'.perm = cs.perm]_vars

\* pad(2) has been called on a composer with a public input on its last row
\* and wires recorded in the permutation
C7_Witness ==
    /\ last.op = "pad" /\ last.diff = 2
    /\ cs.n = 3
    /\ \E e \in cs.public_inputs : e[1] = 0
    /\ cs.perm[VarA] # <<>>
    /\ cs.col["q_arith"][1] # 0

Satisfies(circuit) ==
    /\ circuit.c = (circuit.a + circuit.b) % P
    /\ circuit.mul => circuit.d = (circuit.a * circuit.b) % P
    /\ circuit.point => (circuit.x = circuit.f.x /\ circuit.y = circuit.f.y)

\* verify_proof has been called with the circuit's public inputs, the
\* positions compile returned and the label of gen_proof
RightCall ==
    /\ pipe.call.values = CorrectValues(pipe.circuit)
    /\ pipe.call.positions = pipe.compiled.verifier_data.pi_pos
    /\ pipe.call.label = pipe.label

\* C1: for a circuit whose witness satisfies its constraints, after compile or
\* compile_wbr, then gen_proof with the returned ProverKey, verify_proof with
\* the returned VerifierKey, the right public-input values, the returned
\* positions and the same label returns Ok.
C1_Completeness ==
    (pipe.stage \in {"verified", "reverified"} /\ Satisfies(pipe.circuit) /\ RightCall)
        => pipe.verdict.tag = "Ok"

\* a proof of the circuit with all its checks, compiled from the default
\* instance with non-zero blinding, has been verified with the right call
C1_Witness ==
    /\ pipe.stage = "verified"
    /\ pipe.circuit.mul /\ pipe.circuit.point /\ pipe.circuit.a # 0
    /\ Satisfies(pipe.circuit)
    /\ pipe.how.fn = "compile_wbr" /\ pipe.how.br # BlindingDefault /\ pipe.how.on_default
    /\ RightCall
    /\ pipe.verdict.tag = "Ok"

\* exactly one public input differs between the two lists
OneValueChanged(V, W) ==
    /\ Len(V) = Len(W)
    /\ Cardinality({i \in 1..Len(V) : V[i] # W[i]}) = 1

\* one value per position, and no position twice
OnePerPosition(values, positions) ==
    /\ Len(FlatValues(values)) = Len(positions)
    /\ \A i, j \in 1..Len(positions) : i # j => positions[i] # positions[j]

\* C2: after a proof has verified with values V at some positions,
\* verify_proof with the same proof, key, positions and label and with one
\* value of V changed returns Err.
C2_PublicInputBinding ==
    (pipe.stage = "reverified" /\ OneValueChanged(pipe.call.values, pipe.again))
        => pipe.verdict2.tag = "ProofVerificationError"

\* for comparison: when the first call passes one value per position, at
\* pairwise distinct positions, the call with one value changed returns Err.
BindingWhenWellFormed ==
    (/\ pipe.stage = "reverified"
     /\ OneValueChanged(pipe.call.values, pipe.again)
     /\ OnePerPosition(pipe.call.values, pipe.call.positions))
        => pipe.verdict2.tag = "ProofVerificationError"

\* a proof has verified, and has been refused with the public c changed
C2_Witness ==
    /\ pipe.stage = "reverified"
    /\ pipe.verdict.tag = "Ok"
    /\ OnePerPosition(pipe.call.values, pipe.call.positions)
    /\ OneValueChanged(pipe.call.values, pipe.again)
    /\ pipe.again[1] # pipe.call.values[1]
    /\ pipe.circuit.point
    /\ pipe.verdict2.tag = "ProofVerificationError"

\* eleven pairs of zeros
ZeroPairs == [k \in 1..11 |-> <<0, 0>>]

\* the interpolation of a column of the composer over its domain, unblinded
PlainInterpolation(composer, c) ==
    PolyTrunc(ifft(NewDomain(composer.n), composer.col[c]))

\* C9: BlindingRandomness::default() is eleven pairs of zeros; Verifier::preprocess
\* does what Verifier::preprocess_wbr does with that value, and compile returns
\* what compile_wbr returns with it; with it add_blinder returns the polynomial
\* it was given, so each selector commitment is to the plain interpolation of
\* its padded column.
C9_DefaultBlindingIdentity ==
    [][/\ BlindingDefault = ZeroPairs
       /\ (PreprocessStep /\ last'.op = "preprocess") =>
            \A v \in {preprocess_verifier(cs, last'.commit_key,
                                          preprocessed_transcript, ZeroPairs)} :
                /\ last'.tag = v.tag
                /\ cs' = v.cs
                /\ preprocessed_transcript' = v.transcript
                /\ v.tag = "Ok" =>
                    /\ verifier_key' = v.verifier_key
                    /\ \A c \in Selectors :
                        /\ verifier_key'.com[c].committed
                        /\ verifier_key'.com[c].to = PlainInterpolation(cs', c)
                        /\ PolyTrunc(add_blinder(ifft(NewDomain(cs'.n), cs'.col[c]),
                                                 cs'.n, BlindingDefault[1]))
                             = PlainInterpolation(cs', c)
       /\ (pipe.stage = "circuit" /\ pipe'.stage = "compiled"
                                  /\ pipe'.how.fn = "compile") =>
            \A inst \in {IF pipe'.how.on_default THEN DefaultCircuit(pipe.circuit)
                         ELSE pipe.circuit} :
                /\ pipe'.compiled = compile_wbr(inst, pipe.u_params, ZeroPairs)
                /\ pipe'.compiled.tag = "Ok" =>
                    \A c \in Selectors :
                        pipe'.compiled.verifier_data.key.com[c].to =
                            PolyTrunc(pipe'.compiled.prover_key.poly[c])
      ]_vars

\* Verifier::preprocess has succeeded on three gates and a commit key that
\* holds the interpolations of four rows
C9_Witness ==
    /\ last.op = "preprocess"
    /\ last.tag = "Ok"
    /\ cs.n = 4 /\ cs.col["q_arith"][3] # 0
    /\ verifier_key.some
    /\ verifier_key.com["q_arith"].to = PlainInterpolation(cs, "q_arith")
    /\ Len(verifier_key.com["q_arith"].to) > 1


(***************************************************************************)
(* SpecV: one Verifier shared by its callers.  The circuit is described    *)
(* through mut_cs(), preprocess / preprocess_wbr take &mut self, verify    *)
(* takes &self, so verify calls may overlap each other but not a           *)
(* preprocessing.                                                          *)
(***************************************************************************)
\* verify calls a session makes at most, and preprocessing calls
MaxCalls == 2
MaxPreprocess == 2

\* Proof::verify absorbs the public inputs and the proof into the transcript
\* it is handed, and derives its challenges from the result
Absorb(transcript, proof, public_inputs) ==
    Append(transcript, [pi |-> public_inputs, com |-> proof.com, n |-> proof.n])

\* a verify that takes the key out of the verifier
VerifyBeginTakesKey(verifier, proof, public_inputs) ==
    IF ~verifier.verifier_key.some
    THEN [call |-> [pc |-> "done", result |-> "panic"], verifier |-> verifier]
    ELSE [call |-> [pc |-> "cloned", proof |-> proof, public_inputs |-> public_inputs,
                    key |-> verifier.verifier_key, ref |-> "clone",
                    clone |-> verifier.preprocessed_transcript, result |-> ""],
          verifier |-> [verifier EXCEPT !.verifier_key = NoKey]]

\* a verify that hands proof.verify the verifier's own transcript
VerifyBeginShared(verifier, proof, public_inputs) ==
    IF ~verifier.verifier_key.some
    THEN [call |-> [pc |-> "done", result |-> "panic"], verifier |-> verifier]
    ELSE [call |-> [pc |-> "cloned", proof |-> proof, public_inputs |-> public_inputs,
                    key |-> verifier.verifier_key, ref |-> "shared",
                    clone |-> <<>>, result |-> ""],
          verifier |-> verifier]

\* Verifier::verify up to the call of proof.verify: the key is unwrapped (a
\* panic on None), the transcript is cloned and the clone is what proof.verify
\* gets as &mut; the verifier (&self) is as before
verify_begin(verifier, proof, public_inputs) ==
    IF ~verifier.verifier_key.some
    THEN [call |-> [pc |-> "done", result |-> "panic"], verifier |-> verifier]
    ELSE [call |-> [pc |-> "cloned", proof |-> proof, public_inputs |-> public_inputs,
                    key |-> verifier.verifier_key, ref |-> "clone",
                    clone |-> verifier.preprocessed_transcript, result |-> ""],
          verifier |-> verifier]

\* the transcript a call works on
TranscriptOf(call, shared) == IF call.ref = "clone" THEN call.clone ELSE shared

\* Proof::verify, first half: absorbs into the transcript it was handed
proof_absorb(call, shared) ==
    LET absorbed == Absorb(TranscriptOf(call, shared), call.proof, call.public_inputs)
    IN  [call |-> [call EXCEPT !.pc = "absorbed",
                               !.clone = IF call.ref = "clone" THEN absorbed ELSE @],
         shared |-> IF call.ref = "clone" THEN shared ELSE absorbed]

\* Proof::verify, second half: accepts exactly a convincing proof for the
\* key's polynomials whose challenges are the ones this transcript yields
proof_decide(call, shared) ==
    IF /\ call.proof.satisfied
       /\ call.proof.n = call.key.n
       /\ \A c \in PolyNames : call.key.com[c].to = call.proof.com[c]
       /\ TranscriptOf(call, shared)
            = Absorb(call.proof.transcript, call.proof, call.proof.public_inputs)
    THEN "Ok"
    ELSE "ProofVerificationError"


\* Prover::new(b"plonk"), the gadget, Prover::preprocess and Prover::prove:
\* the proof a prover of the same circuit hands to the verifier
ProverProof(circuit, commit_key, br) ==
    Only({Prove(p.out.cs, p.prover_key, p.out.transcript) :
            p \in {preprocess_prover(gadget(circuit, NewComposer).composer, commit_key,
                                     NewTranscript("plonk"), br)}})

\* the circuits a session describes: with a witness that satisfies them or not
SessionCircuits ==
    {TestCircuit(mul, FALSE, 2, 3, IF sat THEN 5 ELSE 6, 6, 3, 4, [x |-> 3, y |-> 4]) :
        mul \in BOOLEAN, sat \in BOOLEAN}

\* the dense public inputs a caller passes with a proof: the prover's, or
\* those with the first entry changed
CallInputs(proof, changed) ==
    IF changed THEN [proof.public_inputs EXCEPT ![1] = Fadd(@, 1)]
    ELSE proof.public_inputs

\* every call has returned
NoCallInFlight == \A i \in 1..Len(session.calls) : session.calls[i].pc = "done"

\* circuit.gadget(verifier.mut_cs()); two provers of the circuit, one with
\* the default blinding and one with its own, have their proofs ready
SessionGadget(circuit) ==
    /\ last.op = "new"
    /\ session = NoSession
    /\ cs' = gadget(circuit, cs).composer
    /\ session' = [NoSession EXCEPT
                    !.proofs = <<ProverProof(circuit, 12, BlindingDefault),
                                 ProverProof(circuit, 12, BlindingDistinct)>>]
    /\ last' = Idle("gadget")
    /\ UNCHANGED <<preprocessed_transcript, verifier_key, prover_key, fnVars, pipe>>

\* Verifier::preprocess_wbr, on a verifier that may have been preprocessed
SessionPreprocessWbr(commit_key, br) ==
    /\ session.proofs # <<>>
    /\ session.preprocess_count < MaxPreprocess
    /\ NoCallInFlight
    /\ \E out \in {preprocess_verifier(cs, commit_key, preprocessed_transcript, br)} :
        /\ cs' = out.cs
        /\ preprocessed_transcript' = out.transcript
        /\ verifier_key' = IF out.tag = "Ok" THEN out.verifier_key ELSE verifier_key
        /\ last' = [op |-> "preprocess_wbr", tag |-> out.tag,
                    commit_key |-> commit_key, br |-> br, diff |-> 0]
    /\ session' = [session EXCEPT !.preprocess_count = @ + 1]
    /\ UNCHANGED <<prover_key, fnVars, pipe>>

\* Verifier::preprocess
SessionPreprocess(commit_key) ==
    /\ session.proofs # <<>>
    /\ session.preprocess_count < MaxPreprocess
    /\ NoCallInFlight
    /\ \E br \in {BlindingDefault} :
       \E out \in {preprocess_verifier(cs, commit_key, preprocessed_transcript, br)} :
        /\ cs' = out.cs
        /\ preprocessed_transcript' = out.transcript
        /\ verifier_key' = IF out.tag = "Ok" THEN out.verifier_key ELSE verifier_key
        /\ last' = [op |-> "preprocess", tag |-> out.tag,
                    commit_key |-> commit_key, br |-> br, diff |-> 0]
    /\ session' = [session EXCEPT !.preprocess_count = @ + 1]
    /\ UNCHANGED <<prover_key, fnVars, pipe>>

\* a caller enters Verifier::verify with proof k; the call is recorded with
\* what verify returns for it on the verifier as it is now
VerifyBegin(k, changed) ==
    /\ session.proofs # <<>>
    /\ Len(session.calls) < MaxCalls
    /\ \E verifier \in {[verifier_key |-> verifier_key,
                         preprocessed_transcript |-> preprocessed_transcript]} :
       \E public_inputs \in {CallInputs(session.proofs[k], changed)} :
       \E r \in {verify_begin(verifier, session.proofs[k], public_inputs)} :
        /\ session' = [session EXCEPT !.calls = Append(@,
                          r.call @@ [arg |-> <<k, changed>>,
                                     epoch |-> session.preprocess_count,
                                     overlaps |-> ~NoCallInFlight,
                                     alone |-> verify(verifier, session.proofs[k],
                                                      public_inputs).tag])]
        /\ verifier_key' = r.verifier.verifier_key
        /\ preprocessed_transcript' = r.verifier.preprocessed_transcript
    /\ UNCHANGED <<cs, prover_key, last, fnVars, pipe>>

\* call i goes through the absorbing half of proof.verify
VerifyAbsorb(i) ==
    /\ i \in 1..Len(session.calls)
    /\ session.calls[i].pc = "cloned"
    /\ \E r \in {proof_absorb(session.calls[i], preprocessed_transcript)} :
        /\ session' = [session EXCEPT !.calls[i] = r.call]
        /\ preprocessed_transcript' = r.shared
    /\ UNCHANGED <<cs, verifier_key, prover_key, last, fnVars, pipe>>

\* call i returns
VerifyEnd(i) ==
    /\ i \in 1..Len(session.calls)
    /\ session.calls[i].pc = "absorbed"
    /\ \E result \in {proof_decide(session.calls[i], preprocessed_transcript)} :
        session' = [session EXCEPT !.calls[i].pc = "done", !.calls[i].result = result]
    /\ UNCHANGED <<csVars, fnVars, pipe>>

NextV ==
    \/ \E circuit \in SessionCircuits : SessionGadget(circuit)
    \/ \E commit_key \in CommitKeys : SessionPreprocess(commit_key)
    \/ \E commit_key \in CommitKeys, br \in Blindings : SessionPreprocessWbr(commit_key, br)
    \/ \E k \in 1..2, changed \in BOOLEAN : VerifyBegin(k, changed)
    \/ \E i \in 1..MaxCalls : VerifyAbsorb(i)
    \/ \E i \in 1..MaxCalls : VerifyEnd(i)

SpecV == Init /\ [][NextV]_vars


(***************************************************************************)
(* Properties of Verifier::verify and of the verifier's life cycle,        *)
(* checked under SpecV.                                                    *)
(***************************************************************************)
\* this step belongs to a verify call
VerifyStep == session'.calls # session.calls

\* this step is a preprocessing call of the session
SessionPreprocessStep == session'.preprocess_count # session.preprocess_count

\* the calls that have returned
Done(calls) == {i \in 1..Len(calls) : calls[i].pc = "done"}

\* C11: no step of a verify call changes verifier_key, the composer or
\* preprocessed_transcript, and two verify calls with the same proof and
\* public inputs, with no preprocessing between them, return the same result.
C11_VerifyStateless ==
    [][/\ VerifyStep =>
            /\ verifier_key' = verifier_key
            /\ cs' = cs
            /\ preprocessed_transcript' = preprocessed_transcript
       /\ \A i, j \in Done(session'.calls) :
            (/\ session'.calls[i].arg = session'.calls[j].arg
             /\ session'.calls[i].epoch = session'.calls[j].epoch)
                => session'.calls[i].result = session'.calls[j].result]_vars

\* a proof has been accepted twice, the second call made after the first
\* had returned
C11_Witness ==
    /\ Len(session.calls) = 2
    /\ Done(session.calls) = {1, 2}
    /\ ~session.calls[2].overlaps
    /\ session.calls[1].arg = session.calls[2].arg
    /\ session.calls[1].epoch = session.calls[2].epoch
    /\ session.calls[1].result = "Ok"
    /\ session.calls[2].result = "Ok"

\* C12: however the verify calls on the shared verifier interleave, each
\* returns what verify returns for its proof and public inputs when run alone.
C12_ConcurrentVerify ==
    \A i \in Done(session.calls) : session.calls[i].result = session.calls[i].alone

\* two overlapping calls have returned, one accepting its proof and one
\* refusing changed public inputs
C12_Witness ==
    /\ Len(session.calls) = 2
    /\ Done(session.calls) = {1, 2}
    /\ session.calls[2].overlaps
    /\ session.calls[1].result = "Ok"
    /\ session.calls[2].result = "ProofVerificationError"
    /\ session.calls[2].arg[2]

\* what holds of the life cycle: the key is None until a preprocessing
\* succeeds, and is Some after every successful one
LifecycleOfKey ==
    [][/\ SessionPreprocessStep /\ last'.tag = "Ok" => verifier_key'.some
       /\ ~verifier_key.some /\ verifier_key'.some
            => SessionPreprocessStep /\ last'.tag = "Ok"]_vars

\* C13: the verifier starts with verifier_key = None, a successful
\* preprocessing makes it Some, and a preprocessing call on a verifier that
\* has its key leaves preprocessed_transcript as it was.
C13_Lifecycle ==
    [][/\ SessionPreprocessStep /\ last'.tag = "Ok" => verifier_key'.some
       /\ ~verifier_key.some /\ verifier_key'.some
            => SessionPreprocessStep /\ last'.tag = "Ok"
       /\ SessionPreprocessStep /\ verifier_key.some
            => preprocessed_transcript' = preprocessed_transcript]_vars

\* the same proof and public inputs: accepted after the first preprocessing,
\* refused after the second, which used the same key and the same blinding
C13_Witness ==
    /\ Len(session.calls) = 2
    /\ Done(session.calls) = {1, 2}
    /\ session.calls[1].arg = session.calls[2].arg
    /\ session.calls[1].epoch = 1
    /\ session.calls[2].epoch = 2
    /\ session.calls[1].result = "Ok"
    /\ session.calls[2].result = "ProofVerificationError"
    /\ session.calls[1].key = session.calls[2].key


(***************************************************************************)
(* Properties of compile under universal parameters that are too small,    *)
(* checked under Spec.                                                     *)
(***************************************************************************)
\* trimming the parameters to padded_circuit_size + 6 fails
TrimFails(circuit, u_params) == ~Trim(u_params, padded_circuit_size(circuit) + 6).ok

\* C14: when trimming fails, compile / compile_wbr returns an Err to its
\* caller: it neither succeeds nor panics.
C14_TrimErrorTyped ==
    (pipe.stage = "compiled" /\ TrimFails(pipe.circuit, pipe.u_params))
        => pipe.compiled.tag \notin {"Ok", "panic"}

\* compile_wbr has panicked on parameters too small for the circuit
C14_Witness ==
    /\ pipe.stage = "compiled"
    /\ pipe.how.fn = "compile_wbr"
    /\ TrimFails(pipe.circuit, pipe.u_params)
    /\ pipe.compiled.tag = "panic"


(***************************************************************************)
(* SpecG: compile, gen_proof and verify_proof over implementations of      *)
(* Circuit whose gadget uses its &mut self: it may return an error on one  *)
(* of its invocations, or build a larger circuit from the second on.       *)
(***************************************************************************)
\* the latest invocation on which a gadget fails
MaxFailOn == 3

GadgetCircuits ==
    {StatefulCircuit(TestCircuit(FALSE, point, 2, 3, 5, 6, 3, 4, [x |-> 3, y |-> 4]),
                     fail_on, grows) :
        point \in BOOLEAN, fail_on \in 0..MaxFailOn, grows \in BOOLEAN}

NextG ==
    \/ \E circuit \in GadgetCircuits, u_params \in UParams : NewCircuit(circuit, u_params)
    \/ \E on_default \in BOOLEAN : Compile(on_default)
    \/ \E br \in Blindings, on_default \in BOOLEAN : CompileWbr(br, on_default)
    \/ GenProof("Test")
    \/ VerifyProof

SpecG == Init /\ [][NextG]_vars

(***************************************************************************)
(* Properties of compile and gen_proof over such circuits, checked under   *)
(* SpecG.                                                                  *)
(***************************************************************************)
\* the number of gadget invocations among the calls of a trace
RECURSIVE GadgetCalls(_)
GadgetCalls(trace) ==
    IF trace = <<>> THEN 0
    ELSE (IF Head(trace) = "gadget" THEN 1 ELSE 0) + GadgetCalls(Tail(trace))

\* the result r of an operation that began with the circuit at runs0
\* invocations is the gadget's error, carries no key and no proof, and the
\* failing invocation is the last call the operation made
StoppedAtGadgetError(r, runs0, fail_on) ==
    /\ r.tag = "GadgetError"
    /\ DOMAIN r \cap {"prover_key", "verifier_data", "proof"} = {}
    /\ r.trace # <<>>
    /\ r.trace[Len(r.trace)] = "gadget"
    /\ runs0 + GadgetCalls(r.trace) = fail_on

\* the invocations compile and gen_proof made of the circuit on its way
CompileRuns == IF pipe.how.on_default THEN 0 ELSE 2

\* C15: when an invocation of the gadget returns Err(e) during compile /
\* compile_wbr or gen_proof, the operation returns Err(e), no key and no
\* proof, and makes no call after the failing invocation.
C15_GadgetErrorPropagates ==
    /\ (/\ pipe.stage \in {"compiled", "proved", "verified"}
        /\ pipe.compiled.tag # "panic"
        /\ pipe.circuit.fail_on \in 1..2)
            => StoppedAtGadgetError(pipe.compiled, 0, pipe.circuit.fail_on)
    /\ (/\ pipe.stage \in {"proved", "verified"}
        /\ pipe.proved.tag # "panic"
        /\ pipe.circuit.fail_on = CompileRuns + 1)
            => StoppedAtGadgetError(pipe.proved, CompileRuns, pipe.circuit.fail_on)

\* compile stopped at the second invocation of the gadget, after the
\* prover's preprocessing
C15_Witness ==
    /\ pipe.stage = "compiled"
    /\ pipe.circuit.fail_on = 2
    /\ pipe.compiled.tag = "GadgetError"
    /\ pipe.compiled.trace = <<"gadget", "preprocess", "gadget">>


\* the ProverKey and the VerifierKey describe one circuit: the same size, and
\* the key's commitments are those of the ProverKey's polynomials
SameCircuit(pk, vk) ==
    /\ pk.n = vk.n
    /\ \A c \in PolyNames : vk.com[c].to = PolyTrunc(pk.poly[c])

\* C20: when compile / compile_wbr returns Ok, the ProverKey and the
\* VerifierData it returns describe the same circuit.
C20_CircuitIdentity ==
    (pipe.stage = "compiled" /\ pipe.compiled.tag = "Ok")
        => SameCircuit(pipe.compiled.prover_key, pipe.compiled.verifier_data.key)

\* compile_wbr returned Ok with a ProverKey for one gate and a VerifierKey
\* for two: a circuit of another size
C20_Witness ==
    /\ pipe.stage = "compiled"
    /\ pipe.compiled.tag = "Ok"
    /\ pipe.how.fn = "compile_wbr"
    /\ pipe.circuit.grows
    /\ pipe.compiled.prover_key.n = 1
    /\ pipe.compiled.verifier_data.key.n = 2


(***************************************************************************)
(* SpecB: one circuit compiled and proved twice, under two blinding        *)
(* values, and each proof verified against the data of each compilation.   *)
(***************************************************************************)
\* blinding values as BlindingRandomness::new() returns them, and one built
\* entry by entry
FreshBlindings == {BlindingNew(1), BlindingNew(2), BlindingDistinct}

\* the second compilation and its proof have not been verified
NoVerdicts == [p \in {} |-> "Ok"]

\* circuit.compile_wbr(&pp, &br) once more, on the same instance and with
\* another blinding value
CompileWbrAgain(br) ==
    /\ pipe.stage = "proved"
    /\ pipe.proved.tag = "Ok"
    /\ pipe.second = NotRun
    /\ br # pipe.how.br
    /\ \E inst \in {IF pipe.how.on_default THEN DefaultCircuit(pipe.circuit)
                    ELSE pipe.circuit} :
       \E r \in {compile_wbr(inst, pipe.u_params, br)} :
        pipe' = [pipe EXCEPT !.stage = "compiled again",
                             !.second = [br |-> br, compiled |-> r, proved |-> NotRun,
                                         verdicts |-> NoVerdicts]]
    /\ UNCHANGED <<csVars, fnVars, session>>

\* circuit.gen_proof(&pp, pk, label) with the second ProverKey
GenProofAgain ==
    /\ pipe.stage = "compiled again"
    /\ pipe.second.compiled.tag = "Ok"
    /\ \E r \in {gen_proof(pipe.circuit, pipe.u_params,
                           pipe.second.compiled.prover_key, pipe.label)} :
        pipe' = [pipe EXCEPT !.stage = "proved again",
                             !.second.compiled.prover_key = NoProverKey,
                             !.second.proved = r]
    /\ UNCHANGED <<csVars, fnVars, session>>

\* the VerifierData and the proof of either compilation
DataOf(d) == IF d = 1 THEN pipe.compiled.verifier_data
             ELSE pipe.second.compiled.verifier_data
ProofOf(p) == IF p = 1 THEN pipe.proved.proof ELSE pipe.second.proved.proof

\* verify_proof of proof p against the VerifierData of compilation d, with
\* the circuit's public inputs and the label of gen_proof
VerifyAgainst(p, d) ==
    /\ pipe.stage = "proved again"
    /\ pipe.second.proved.tag = "Ok"
    /\ <<p, d>> \notin DOMAIN pipe.second.verdicts
    /\ \E r \in {verify_proof(pipe.u_params, DataOf(d).key, ProofOf(p),
                              CorrectValues(pipe.circuit), DataOf(d).pi_pos,
                              pipe.label)} :
        pipe' = [pipe EXCEPT !.second.verdicts = @ @@ (<<p, d>> :> r.tag)]
    /\ UNCHANGED <<csVars, fnVars, session>>

NextB ==
    \/ \E circuit \in PipeCircuits, u_params \in UParams : NewCircuit(circuit, u_params)
    \/ \E br \in FreshBlindings, on_default \in BOOLEAN : CompileWbr(br, on_default)
    \/ GenProof("Test")
    \/ \E br \in FreshBlindings : CompileWbrAgain(br)
    \/ GenProofAgain
    \/ \E p \in 1..2, d \in 1..2 : VerifyAgainst(p, d)

SpecB == Init /\ [][NextB]_vars


(***************************************************************************)
(* Properties of two compilations under two blinding values, checked       *)
(* under SpecB.                                                            *)
(***************************************************************************)
\* both proofs exist, of a circuit whose witness satisfies it
BothProved ==
    /\ pipe.stage = "proved again"
    /\ pipe.second.proved.tag = "Ok"
    /\ Satisfies(pipe.circuit)

Verdicts == pipe.second.verdicts

\* C16: the two proofs differ, the two compilations returned the same
\* VerifierData, and each proof verifies against it.
C16_BlindingNonInterference ==
    BothProved =>
        /\ ProofOf(1) # ProofOf(2)
        /\ DataOf(1) = DataOf(2)
        /\ \A pd \in DOMAIN Verdicts : Verdicts[pd] = "Ok"

\* C16, with the VerifierData the code returns: the two proofs differ, the
\* two VerifierData differ in their key and agree on the positions, and a
\* proof verifies against the data of its own compilation and against no other.
C16_BlindingChangesKey ==
    BothProved =>
        /\ ProofOf(1) # ProofOf(2)
        /\ DataOf(1).key # DataOf(2).key
        /\ DataOf(1).pi_pos = DataOf(2).pi_pos
        /\ \A pd \in DOMAIN Verdicts : (Verdicts[pd] = "Ok") <=> (pd[1] = pd[2])

\* the full circuit, compiled under two values as new() returns them, with
\* every proof verified against the data of both compilations
C16_Witness ==
    /\ BothProved
    /\ pipe.circuit.mul /\ pipe.circuit.point
    /\ pipe.how.br = BlindingNew(1)
    /\ pipe.second.br = BlindingNew(2)
    /\ DOMAIN Verdicts = (1..2) \X (1..2)
    /\ Verdicts[<<1, 1>>] = "Ok" /\ Verdicts[<<2, 2>>] = "Ok"
    /\ Verdicts[<<1, 2>>] = "ProofVerificationError"

(***************************************************************************)
(* Claims on the pure functions of the second group, under SpecFn.         *)
(***************************************************************************)
\* the round trip of a VerifierData value has run
Serialized == fnIn.op = "serialize" /\ fnOut # NotRun

\* C17: deserialize(serialize(v)) succeeds and equals v: the key is the same
\* key and pi_pos holds the same positions in the same order.
C17_VerifierDataRoundTrip ==
    Serialized =>
        /\ fnOut.tag = "Ok"
        /\ fnOut.val = fnIn.data
        /\ fnOut.val.key = fnIn.data.key
        /\ Len(fnOut.val.pi_pos) = Len(fnIn.data.pi_pos)
        /\ \A i \in 1..Len(fnIn.data.pi_pos) : fnOut.val.pi_pos[i] = fnIn.data.pi_pos[i]

\* a value with positions of more than one byte, out of order, came back
C17_Witness ==
    /\ Serialized
    /\ fnOut.tag = "Ok"
    /\ fnIn.data.pi_pos = <<70000, 300>>
    /\ fnOut.val.pi_pos = <<70000, 300>>
    /\ fnIn.data.key.com["q_l"].to # fnIn.data.key.com["q_m"].to

\* compute_vanishing_poly_over_coset has run
VanishingRan == fnIn.op = "vanishing" /\ fnOut # NotRun

\* C18: compute_vanishing_poly_over_coset(domain, d) fails unless the domain
\* is larger than d; otherwise it returns as many values as the domain has
\* elements, and the i-th (from 0) is g^d * w^(d*i) - 1 = (g * w^i)^d - 1 for
\* the field's generator g and the domain's generator w.
C18_VanishingOverCoset ==
    VanishingRan =>
        LET domain == NewDomain(Pow2(fnIn.log_size))
            d == fnIn.poly_degree
            g == GENERATOR
            w == domain.group_gen
        IN  IF domain.size > d
            THEN /\ fnOut.tag = "returned"
                 /\ Len(fnOut.val) = domain.size
                 /\ \A i \in 0..domain.size - 1 :
                       /\ fnOut.val[i + 1] = Fsub(Fmul(Fpow(g, d), Fpow(w, d * i)), 1)
                       /\ fnOut.val[i + 1] = Fsub(Fpow(Fmul(g, Fpow(w, i)), d), 1)
            ELSE fnOut = Panic

\* the values of X^2 - 1 over the coset of the domain of size 4 were computed,
\* and they are not the values over the domain itself
C18_Witness ==
    /\ VanishingRan
    /\ fnIn.log_size = 2
    /\ fnIn.poly_degree = 2
    /\ fnOut.tag = "returned"
    /\ Len(fnOut.val) = 4
    /\ fnOut.val[1] = Fsub(Fmul(GENERATOR, GENERATOR), 1)
    /\ fnOut.val[1] # 0

\* BlindingRandomness::new has run
NewRan == fnIn.op = "new" /\ fnOut # NotRun

\* C19: BlindingRandomness::new() draws each of its 22 entries separately from
\* the random source: entry j of pair k is the (2(k-1)+j)-th output of the
\* source, and 22 outputs are used.
C19_SeparateDraws ==
    NewRan =>
        /\ \A k \in 1..NumSelectors : \A j \in 1..2 :
              fnOut.val.r[k][j] = fnIn.source[2 * (k - 1) + j]
        /\ Len(fnOut.val.rest) = Len(fnIn.source) - 2 * NumSelectors

\* new() ran on a source of 22 different outputs, and the 22 entries are all
\* the first output
C19_Witness ==
    /\ NewRan
    /\ \A a, b \in 1..2 * NumSelectors : a # b => fnIn.source[a] # fnIn.source[b]
    /\ \A k \in 1..NumSelectors : \A j \in 1..2 : fnOut.val.r[k][j] = fnIn.source[1]
    /\ Len(fnOut.val.rest) = Len(fnIn.source) - 1

(***************************************************************************)
(* Blinding inside preprocess_shared, under Spec.                          *)
(***************************************************************************)
\* the order in which the blinding pairs are handed out
BlindingOrder ==
    <<"q_m", "q_l", "q_r", "q_o", "q_c", "q_4", "q_arith", "q_range", "q_logic",
      "q_fixed_group_add", "q_variable_group_add">>

\* a preprocessing with a blinding value has just succeeded
BlindedStep ==
    /\ PreprocessStep
    /\ last'.op \in {"preprocess_wbr", "preprocess_prover"}
    /\ last'.tag = "Ok"

\* the polynomial the step has left for column c: the one the VerifierKey
\* commits to, or the one in the ProverKey
LeftFor(c) ==
    IF last'.op = "preprocess_wbr" THEN verifier_key'.com[c].to
    ELSE PolyTrunc(prover_key'.poly[c])

\* C21: preprocess_shared blinds the k-th selector, in the order q_m, q_l, q_r,
\* q_o, q_c, q_4, q_arith, q_range, q_logic, q_fixed_group_add,
\* q_variable_group_add, with the pair r[k] and the vanishing polynomial
\* X^n - 1 of the padded size n; the four sigma polynomials are not blinded
\* and are the same for every blinding value.
C21_BlindingAssignment ==
    [][BlindedStep =>
        /\ cs'.n = next_power_of_two(cs.n)
        /\ \A k \in 1..11 :
            \A j \in 1..(cs'.n + 3) :
                Coef(LeftFor(BlindingOrder[k]), j) =
                    BlindedCoef(PlainInterpolation(cs', BlindingOrder[k]),
                                cs'.n, last'.br[k], j)
        /\ \A sigmas \in {compute_sigma_polynomials(cs'.perm, cs'.n, NewDomain(cs'.n))} :
            \A k \in 1..4 : LeftFor(SigmaNames[k]) = PolyTrunc(sigmas[k])
        /\ \A other \in Blindings \cup {BlindingNew(1)} :
            \A o \in {preprocess_shared(cs, last'.commit_key, preprocessed_transcript, other)} :
                o.tag = "Ok" =>
                    \A k \in 1..4 :
                        PolyTrunc(o.selectors.poly[SigmaNames[k]]) = LeftFor(SigmaNames[k])
      ]_vars

\* preprocess_wbr has succeeded with eleven different pairs on a circuit that
\* was padded from three rows to four: q_l carries the second pair and q_r the
\* third, on X^4 - 1
C21_Witness ==
    /\ last.op = "preprocess_wbr"
    /\ last.tag = "Ok"
    /\ last.br = BlindingDistinct
    /\ cs.n = 4
    /\ verifier_key.some
    /\ Coef(verifier_key.com["q_l"].to, 6) = BlindingDistinct[2][2]
    /\ Coef(verifier_key.com["q_r"].to, 6) = BlindingDistinct[3][2]
    /\ BlindingDistinct[2] # BlindingDistinct[3]
    /\ Len(verifier_key.com["left_sigma"].to) <= 4

(***************************************************************************)
(* verify_proof on positions that do not fit the dense vector, under Spec. *)
(***************************************************************************)
\* verify_proof was handed a position that is not an index of the dense
\* vector of the key's padded size
PositionOutOfVector ==
    /\ pipe.stage = "verified"
    /\ \E i \in 1..Len(pipe.call.positions) :
          pipe.call.positions[i] >= pipe.compiled.verifier_data.key.n

\* C22: when a supplied public-input position is at or beyond the
\* VerifierKey's padded circuit size, verify_proof returns an Err: it neither
\* succeeds nor panics.
C22_PiPositionTyped ==
    PositionOutOfVector => pipe.verdict.tag \notin {"Ok", "panic"}

\* verify_proof has panicked on a position equal to the padded size, with
\* parameters large enough for the trim and a value for every position
C22_Witness ==
    /\ PositionOutOfVector
    /\ ~TrimFails(pipe.circuit, pipe.u_params)
    /\ Len(FlatValues(pipe.call.values)) >= Len(pipe.call.positions)
    /\ pipe.call.positions[Len(pipe.call.positions)] = pipe.compiled.verifier_data.key.n
    /\ pipe.verdict = Panic

(***************************************************************************)
(* Verifier::verify before any preprocessing, under SpecV.                 *)
(***************************************************************************)
\* the calls of verify that were made on the verifier as Verifier::new and
\* the gadget left it: no preprocessing had been called, no key assigned
OnUninitialized ==
    {i \in 1..Len(session.calls) :
        session.calls[i].epoch = 0 /\ session.calls[i].pc = "done"}

\* C23: Verifier::verify on a Verifier in the Uninitialized state
\* (verifier_key = None) returns an Err to its caller; it does not panic.
C23_VerifyUninitializedTyped ==
    \A i \in OnUninitialized : session.calls[i].result \notin {"Ok", "panic"}

\* verify has panicked on a verifier that holds a circuit and no key
C23_Witness ==
    /\ session.preprocess_count = 0
    /\ verifier_key = NoKey
    /\ cs.n > 0
    /\ 1 \in OnUninitialized
    /\ session.calls[1].result = "panic"
    /\ session.calls[1].alone = "panic"

(***************************************************************************)
(* SpecP: one Verifier that is preprocessed more than once, with code of   *)
(* the crate reaching its composer through mut_cs() in between.            *)
(***************************************************************************)
\* code of the crate pushes onto one column of the verifier's composer, whose
\* columns had one length
SessionPush(c) ==
    /\ session.proofs # <<>>
    /\ \A d \in Columns : Len(cs.col[d]) = cs.n
    /\ cs' = [cs EXCEPT !.col[c] = Append(@, 0)]
    /\ last' = Idle("push")
    /\ UNCHANGED <<preprocessed_transcript, verifier_key, prover_key, fnVars, session, pipe>>

\* the circuits of these sessions: of one to four gates
PreprocessCircuits ==
    {TestCircuit(mul, point, 2, 3, 5, 6, 3, 4, [x |-> 3, y |-> 4]) :
        mul \in BOOLEAN, point \in BOOLEAN}

NextP ==
    \/ \E circuit \in PreprocessCircuits : SessionGadget(circuit)
    \/ \E c \in Columns : SessionPush(c)
    \/ \E commit_key \in CommitKeys : SessionPreprocess(commit_key)
    \/ \E commit_key \in CommitKeys, br \in Blindings : SessionPreprocessWbr(commit_key, br)

SpecP == Init /\ [][NextP]_vars

\* a preprocessing of the verifier has just returned an Err
FailedPreprocessStep ==
    /\ SessionPreprocessStep
    /\ last'.op \in {"preprocess", "preprocess_wbr"}
    /\ last'.tag # "Ok"

\* C24: when Verifier::preprocess_wbr returns Err (MismatchedPolyLen, or a
\* commitment error), verifier_key keeps its previous value and
\* preprocessed_transcript is unchanged; the composer is untouched on
\* MismatchedPolyLen and is padded on a commitment error.
C24_FailedPreprocessFrame ==
    [][FailedPreprocessStep =>
        /\ last'.tag \in {"MismatchedPolyLen", "TooManyCoefficients"}
        /\ verifier_key' = verifier_key
        /\ preprocessed_transcript' = preprocessed_transcript
        /\ last'.tag = "MismatchedPolyLen" => cs' = cs
        /\ last'.tag = "TooManyCoefficients" =>
            /\ cs'.n = next_power_of_two(cs.n)
            /\ cs' = pad(cs, next_power_of_two(cs.n) - cs.n)
      ]_vars

\* a second preprocess_wbr, under a commit key too short for the blinded
\* polynomials, has failed on a verifier that had a key: the key is there and
\* the transcript has been seeded once
C24_Witness ==
    /\ session.preprocess_count = 2
    /\ last.op = "preprocess_wbr"
    /\ last.tag = "TooManyCoefficients"
    /\ verifier_key.some
    /\ Len(preprocessed_transcript) = 2
    /\ preprocessed_transcript[2] = verifier_key
    /\ cs.n = 4

\* a first preprocess_wbr has failed on a commitment and has left the composer
\* padded from three rows to four, with no key
C24_PaddedOnError ==
    /\ session.preprocess_count = 1
    /\ last.tag = "TooManyCoefficients"
    /\ verifier_key = NoKey
    /\ Len(preprocessed_transcript) = 1
    /\ cs.n = 4
    /\ \A c \in Selectors : cs.col[c][4] = 0

(***************************************************************************)
(* The vanishing polynomial on the coset of the 8n domain, under Spec.     *)
(***************************************************************************)
\* the ProverKeys at hand: the one preprocess_prover left, the one compile
\* returned
ProverKeysAtHand ==
    (IF last.op = "preprocess_prover" /\ last.tag = "Ok" THEN {prover_key} ELSE {})
        \cup (IF pipe.stage = "compiled" /\ pipe.compiled.tag = "Ok"
              THEN {pipe.compiled.prover_key} ELSE {})

\* C25: for a circuit domain of size n, in a field whose generator g is not an
\* 8n-th root of unity, the ProverKey holds the 8n values of
\* compute_vanishing_poly_over_coset(domain_8n, n), and none of them is zero:
\* each has an inverse.
C25_VanishingNeverZero ==
    \A key \in ProverKeysAtHand :
        Fpow(GENERATOR, 8 * key.n) # 1 =>
            /\ key.v_h_coset_8n
                 = compute_vanishing_poly_over_coset(NewDomain(8 * key.n), key.n).val
            /\ Len(key.v_h_coset_8n) = 8 * key.n
            /\ \A i \in 1..(8 * key.n) :
                /\ key.v_h_coset_8n[i] # 0
                /\ Fmul(key.v_h_coset_8n[i], Finv(key.v_h_coset_8n[i])) = 1

\* preprocess_prover has left a ProverKey for four rows, with the 32 values of
\* X^4 - 1 on the coset, which take more than one value
C25_Witness ==
    /\ last.op = "preprocess_prover"
    /\ last.tag = "Ok"
    /\ prover_key \in ProverKeysAtHand
    /\ prover_key.n = 4
    /\ Fpow(GENERATOR, 32) # 1
    /\ Len(prover_key.v_h_coset_8n) = 32
    /\ prover_key.v_h_coset_8n[1] = Fsub(Fpow(GENERATOR, 4), 1)
    /\ prover_key.v_h_coset_8n[2] # prover_key.v_h_coset_8n[1]

=============================================================================
